---- MODULE Spec2Model ----
(***************************************************************************)
(* TRACE: the text-format converters of the structural-variant pipeline.   *)
(*                                                                         *)
(*   vcf2bed.py          VCF records -> BED-like interval lines            *)
(*   bed_processor.py    SVTYPE-dependent flanking of interval lines       *)
(*   squash_intersect.py grouping of intersected rows by SnifflesID        *)
(*   annotate_vcf.py     the grouped annotations written into the VCF      *)
(*   TRACE.py            the orchestrator that runs the stages in order    *)
(*                                                                         *)
(* A text field is a sequence of one-character strings, a line is the      *)
(* sequence of its tab-separated fields, a file is a sequence of lines.    *)
(* Each tool is a run of its own: `tool` names the program that runs.      *)
(***************************************************************************)
EXTENDS Integers, Sequences, FiniteSets, TLC

VARIABLES
    tool,                \* the program this run executes
    status,              \* "running", or how the program ended: "ok", "exit1", ...
    \* ---- vcf2bed.py: vcf_to_bed
    vcf,                 \* the lines of input_file
    parse_bnd,           \* not --no-BND-parse
    include_ins,         \* --include-INS
    line_count,          \* lines read so far
    bed,                 \* the lines written to output_file
    bed_on_disk,         \* output_file exists
    variant_count,
    skipped_ins_count,
    parsed_bnd_count,
    unparsed_bnd_count,
    warnings,            \* "insufficient fields" warnings printed
    \* ---- parse_bnd_alt on its own
    alt_field,           \* the ALT string handed to parse_bnd_alt
    bnd_result,          \* what parse_bnd_alt returned for it
    \* ---- bed_processor.py: process_bed_file
    bed_in,              \* the lines of input_file
    flank_size,          \* --flank-size
    min_coord,           \* --min-coord
    skip_invalid,        \* --skip-invalid
    lines_read,
    lines_written,
    lines_skipped,
    bed_out,             \* the lines written to output_file
    bed_out_on_disk,     \* output_file exists
    \* ---- squash_intersect.py: squash_variants, write_output
    sq_in,               \* the lines of input_file
    skip_header,         \* --skip-header
    no_header,           \* --no-header
    sq_line_num,         \* lines read so far
    variants,            \* SnifflesID -> the element lists of its rows, in order
    valid_count,         \* line_count of squash_variants
    skipped_count,
    tsv,                 \* the lines written to the output
    \* ---- annotate_vcf.py: process_vcf_file
    ann_in,              \* the lines of input_file
    lookup_dict,         \* SnifflesID -> annotation
    use_stdout,          \* --stdout
    ann_line_num,        \* lines read so far
    last_info_line,
    header_written,
    total_records,
    annotated_records,
    ann_out,             \* the lines written to output_handle
    ann_out_on_disk,     \* output_file exists
    overwrite,           \* --overwrite
    output_existed,      \* output_file existed when main() started
    ann_step,            \* where main() of annotate_vcf.py is
    \* ---- vcf2fasta.py: process_vcf_file
    fa_in,               \* the lines of input_file
    min_length,          \* --min-length
    max_length,          \* --max-length, NoLimit when not given
    fa_line_num,         \* lines read so far
    fasta,               \* the lines written to fasta_handle
    insertions_extracted,
    symbolic_skipped,
    \* ---- TRACE.py: main
    step,                \* where main() is
    started,             \* the stages started so far, in order
    returncode,          \* exit code of the stage run last
    fs,                  \* the files that exist
    path_tools,          \* the external tools found in PATH
    arg_path,            \* the path behind input_vcf, intersect, lib and the log
    touched,             \* the paths written or removed so far
    keep_intermediates,  \* --keep-intermediates
    remove_log,          \* --remove-log
    cleanup_started

vcfVars == <<vcf, parse_bnd, include_ins, line_count, bed, bed_on_disk,
             variant_count, skipped_ins_count, parsed_bnd_count,
             unparsed_bnd_count, warnings>>
bndVars == <<alt_field, bnd_result>>
bedVars == <<bed_in, flank_size, min_coord, skip_invalid, lines_read,
             lines_written, lines_skipped, bed_out, bed_out_on_disk>>
sqVars  == <<sq_in, skip_header, no_header, sq_line_num, variants, valid_count,
             skipped_count, tsv>>
annVars == <<ann_in, lookup_dict, use_stdout, ann_line_num, last_info_line,
             header_written, total_records, annotated_records, ann_out,
             ann_out_on_disk, overwrite, output_existed, ann_step>>
orchVars == <<step, started, returncode, fs, touched, path_tools, arg_path, keep_intermediates,
              remove_log, cleanup_started>>
faVars == <<fa_in, min_length, max_length, fa_line_num, fasta,
            insertions_extracted, symbolic_skipped>>
vars == <<tool, status, vcfVars, bndVars, bedVars, sqVars, annVars, orchVars, faVars>>

(***************************************************************************)
(* Bounds of the model.                                                    *)
(***************************************************************************)
MaxVcfLines == 2      \* lines in an input VCF
MaxAltLen == 6        \* characters in an ALT string given to parse_bnd_alt
MaxBedLines == 2      \* lines in an input BED file
MaxRows == 3          \* lines in an intersected file

(***************************************************************************)
(* Text.                                                                   *)
(***************************************************************************)
Digits == <<"0", "1", "2", "3", "4", "5", "6", "7", "8", "9">>
DigitSet == {Digits[i] : i \in 1..10}
DigitVal(c) == (CHOOSE i \in 1..10 : Digits[i] = c) - 1

Min(S) == CHOOSE x \in S : \A y \in S : x <= y

\* Python's None where a text is expected.  No text the programs test
\* against None is ever empty (a regex group of one or more characters), and
\* in a condition both are false.
None == <<>>

\* The end of the longest run of characters of C that starts at s[i]
\* (i - 1 when s[i] is not in C): what a greedy C* consumes.
RunEnd(s, i, C) ==
    CHOOSE k \in (i - 1)..Len(s) :
        /\ \A j \in i..k : s[j] \in C
        /\ (k = Len(s) \/ s[k + 1] \notin C)

\* The end of the longest run of characters other than c that starts at s[i].
RunEndNot(s, i, c) ==
    CHOOSE k \in (i - 1)..Len(s) :
        /\ \A j \in i..k : s[j] # c
        /\ (k = Len(s) \/ s[k + 1] = c)

RECURSIVE NatOf(_)
NatOf(s) ==
    IF s = <<>> THEN 0
    ELSE NatOf(SubSeq(s, 1, Len(s) - 1)) * 10 + DigitVal(s[Len(s)])

\* int(s) succeeds on an optional sign followed by decimal digits.
IsInt(s) ==
    LET body == IF s # <<>> /\ s[1] \in {"+", "-"} THEN Tail(s) ELSE s
    IN  body # <<>> /\ \A i \in 1..Len(body) : body[i] \in DigitSet

int(s) ==
    IF s[1] = "-" THEN 0 - NatOf(Tail(s))
    ELSE IF s[1] = "+" THEN NatOf(Tail(s))
    ELSE NatOf(s)

RECURSIVE NatStr(_)
NatStr(n) ==
    IF n < 10 THEN <<Digits[n + 1]>>
    ELSE NatStr(n \div 10) \o <<Digits[(n % 10) + 1]>>

str(n) == IF n < 0 THEN <<"-">> \o NatStr(0 - n) ELSE NatStr(n)

abs(n) == IF n < 0 THEN 0 - n ELSE n
max(a, b) == IF a >= b THEN a ELSE b

\* line.strip() on a line given as its tab-separated fields: the tabs at
\* either end go, and with them the empty fields they delimit.  The empty
\* line is <<>>.
RECURSIVE strip(_)
strip(line) ==
    IF line = <<>> THEN <<>>
    ELSE IF Head(line) = <<>> THEN strip(Tail(line))
    ELSE IF line[Len(line)] = <<>> THEN strip(SubSeq(line, 1, Len(line) - 1))
    ELSE line

\* ''.split('\t') is [''], a single empty field.
split(line) == IF line = <<>> THEN << <<>> >> ELSE line

\* line.startswith('#')
startswith_hash(line) ==
    line # <<>> /\ Head(line) # <<>> /\ Head(line)[1] = "#"

(***************************************************************************)
(* vcf2bed.py                                                              *)
(***************************************************************************)
S_SVTYPE == <<"S", "V", "T", "Y", "P", "E">>
S_END == <<"E", "N", "D">>
S_SVLEN == <<"S", "V", "L", "E", "N">>
S_INS == <<"I", "N", "S">>
S_BND == <<"B", "N", "D">>
S_DEL == <<"D", "E", "L">>
S_DUP == <<"D", "U", "P">>
S_INV == <<"I", "N", "V">>

\* re.search(f'{field_name}=([^;]+)', info_string): the leftmost place where
\* field_name, '=' and at least one character other than ';' follow each
\* other; group 1 runs to the next ';'.
extract_info_field(info_string, field_name) ==
    LET pattern == field_name \o <<"=">>
        n == Len(pattern)
        starts == {i \in 1..Len(info_string) :
                     /\ i + n <= Len(info_string)
                     /\ SubSeq(info_string, i, i + n - 1) = pattern
                     /\ info_string[i + n] # ";"}
    IN  IF starts = {} THEN None
        ELSE LET i == Min(starts)
             IN  SubSeq(info_string, i + n, RunEndNot(info_string, i + n, ";"))

Bases == {"A", "C", "G", "T", "N"}
Brackets == {"[", "]"}

\* parse_bnd_alt's "no position": the None of (None, None).
NoPos == -1
Unresolved == <<None, NoPos>>

\* [\[\]]([^:]+):(\d+)[\[\]] matched at s[i].  Every piece is followed by a
\* character it cannot itself match, so the greedy match is the only one.
\* stop is the index of the closing bracket.
bracket_token(s, i) ==
    LET c == RunEndNot(s, i + 1, ":")       \* end of group 1
        d == RunEnd(s, c + 2, DigitSet)     \* end of group 2
        ok == /\ i <= Len(s) /\ s[i] \in Brackets
              /\ c >= i + 1 /\ c < Len(s)
              /\ d >= c + 2
              /\ d < Len(s) /\ s[d + 1] \in Brackets
    IN  IF ok
        THEN [ok |-> TRUE, chrom |-> SubSeq(s, i + 1, c),
              pos |-> int(SubSeq(s, c + 2, d)), stop |-> d + 1]
        ELSE [ok |-> FALSE, chrom |-> None, pos |-> NoPos, stop |-> 0]

\* r'^[ACGTN]+[\[\]]([^:]+):(\d+)[\[\]]$'
pattern1(s) ==
    LET b == RunEnd(s, 1, Bases)
        t == bracket_token(s, b + 1)
    IN  IF b >= 1 /\ t.ok /\ t.stop = Len(s) THEN t ELSE [t EXCEPT !.ok = FALSE]

\* r'^[\[\]]([^:]+):(\d+)[\[\]][ACGTN]+$'
pattern2(s) ==
    LET t == bracket_token(s, 1)
    IN  IF t.ok /\ t.stop < Len(s) /\ RunEnd(s, t.stop + 1, Bases) = Len(s)
        THEN t ELSE [t EXCEPT !.ok = FALSE]

\* r'^[\[\]]([^:]+):(\d+)[\[\]]$'
pattern3(s) ==
    LET t == bracket_token(s, 1)
    IN  IF t.ok /\ t.stop = Len(s) THEN t ELSE [t EXCEPT !.ok = FALSE]

\* parse_bnd_alt without its third pattern.
parse_bnd_alt_two_patterns(alt) ==
    IF pattern1(alt).ok THEN <<pattern1(alt).chrom, pattern1(alt).pos>>
    ELSE IF pattern2(alt).ok THEN <<pattern2(alt).chrom, pattern2(alt).pos>>
    ELSE Unresolved

\* The patterns are tried in order and the first match is returned.
parse_bnd_alt(alt) ==
    IF pattern1(alt).ok THEN <<pattern1(alt).chrom, pattern1(alt).pos>>
    ELSE IF pattern2(alt).ok THEN <<pattern2(alt).chrom, pattern2(alt).pos>>
    ELSE IF pattern3(alt).ok THEN <<pattern3(alt).chrom, pattern3(alt).pos>>
    ELSE Unresolved

\* end_position with the sign of SVLEN not looked at.
end_position_unsigned(pos, end_str, svlen_str) ==
    IF end_str # None THEN int(end_str)
    ELSE IF svlen_str # None THEN pos + abs(int(svlen_str))
         ELSE pos

\* "Determine end position": END, else SVLEN, else the position itself.
\* `if end_str:` is false for None alone (a group is never empty).
end_position(pos, end_str, svlen_str) ==
    IF end_str # None THEN int(end_str)
    ELSE IF svlen_str # None
         THEN IF int(svlen_str) < 0 THEN pos + abs(int(svlen_str)) ELSE pos
         ELSE pos

\* `if bnd_chrom and bnd_pos:` is false for None, for '' and for 0.
mate_accepted(bnd_chrom, bnd_pos) ==
    bnd_chrom # None /\ bnd_pos # NoPos /\ bnd_pos # 0

\* The interval of the mate line.
mate_interval(bnd_pos) ==
    IF bnd_pos = 0 THEN <<0, 1>> ELSE <<bnd_pos - 1, bnd_pos>>

\* bed_line with REF and ALT in each other's column.
bed_line_swapped(chrom, start, end, fields) ==
    <<chrom, str(start), str(end), fields[3], fields[5], fields[4], fields[6],
      fields[7], fields[8], fields[9]>>

\* The f-string of both bed.write calls.
bed_line(chrom, start, end, fields) ==
    <<chrom, str(start), str(end), fields[3], fields[4], fields[5], fields[6],
      fields[7], fields[8], fields[9]>>

\* A line with fewer fields than this is skipped with a warning.
MinVcfFields == 9

\* One pass of the loop body over `line`: what it writes and counts, and
\* whether an int() raised (the generic except: sys.exit(1)).
convert_line(line, parseBnd, includeIns) ==
    LET fields == split(strip(line))
        quiet == [lines |-> <<>>, warned |-> 0, ins |-> 0, parsed |-> 0,
                  unparsed |-> 0, raised |-> FALSE]
    IN  IF startswith_hash(line) THEN quiet
        ELSE IF Len(fields) < MinVcfFields THEN [quiet EXCEPT !.warned = 1]
        ELSE IF ~IsInt(fields[2]) THEN [quiet EXCEPT !.raised = TRUE]
        ELSE
        LET pos == int(fields[2])
            alt == fields[5]
            info == fields[8]
            svtype == extract_info_field(info, S_SVTYPE)
            end_str == extract_info_field(info, S_END)
            svlen_str == extract_info_field(info, S_SVLEN)
        IN  IF svtype = S_INS /\ ~includeIns THEN [quiet EXCEPT !.ins = 1]
            ELSE IF end_str # None /\ ~IsInt(end_str)
                 THEN [quiet EXCEPT !.raised = TRUE]
            ELSE IF end_str = None /\ svlen_str # None /\ ~IsInt(svlen_str)
                 THEN [quiet EXCEPT !.raised = TRUE]
            ELSE
            LET primary == bed_line(fields[1], pos - 1,
                                    end_position(pos, end_str, svlen_str), fields)
                mate == parse_bnd_alt(alt)
            IN  IF svtype = S_BND /\ parseBnd
                THEN IF mate_accepted(mate[1], mate[2])
                     THEN [quiet EXCEPT
                             !.lines = <<primary,
                                         bed_line(mate[1], mate_interval(mate[2])[1],
                                                  mate_interval(mate[2])[2], fields)>>,
                             !.parsed = 1]
                     ELSE [quiet EXCEPT !.lines = <<primary>>, !.unparsed = 1]
                ELSE [quiet EXCEPT !.lines = <<primary>>]

\* for line in vcf: one iteration.
vcf_to_bed_line ==
    /\ tool = "vcf2bed" /\ status = "running"
    /\ line_count < Len(vcf)
    /\ LET r == convert_line(vcf[line_count + 1], parse_bnd, include_ins)
       IN  /\ line_count' = line_count + 1
           /\ bed' = bed \o r.lines
           /\ variant_count' = variant_count + Len(r.lines)
           /\ skipped_ins_count' = skipped_ins_count + r.ins
           /\ parsed_bnd_count' = parsed_bnd_count + r.parsed
           /\ unparsed_bnd_count' = unparsed_bnd_count + r.unparsed
           /\ warnings' = warnings + r.warned
           /\ status' = IF r.raised THEN "exit1" ELSE status
    /\ UNCHANGED <<tool, vcf, parse_bnd, include_ins, bed_on_disk, bndVars,
                   bedVars, sqVars, annVars, orchVars, faVars>>

\* The loop is over: the summary is printed and the files are closed.
vcf_to_bed_end ==
    /\ tool = "vcf2bed" /\ status = "running"
    /\ line_count = Len(vcf)
    /\ status' = "ok"
    /\ UNCHANGED <<tool, vcfVars, bndVars, bedVars, sqVars, annVars, orchVars, faVars>>

(***************************************************************************)
(* Input of vcf2bed.py: Sniffles-style records.  Columns: CHROM POS ID REF *)
(* ALT QUAL FILTER INFO FORMAT [SAMPLE].                                   *)
(***************************************************************************)
VcfRecord(chrom, pos, id, ref, alt, info) ==
    <<chrom, pos, id, ref, alt, <<".">>, <<"P", "A", "S", "S">>, info, <<"G", "T">>>>

VcfLines ==
    { <<<<"#", "C", "H", "R", "O", "M">>, <<"P", "O", "S">>, <<"I", "D">>>>,
      VcfRecord(<<"c", "1">>, <<"1", "0", "0", "0">>, <<"v", "A">>, <<"N">>, <<"<", "D", "E", "L", ">">>, <<"S", "V", "T", "Y", "P", "E", "=", "D", "E", "L", ";", "S", "V", "L", "E", "N", "=", "-", "5", "0", ";", "E", "N", "D", "=", "2", "0", "0", "0">>),
      VcfRecord(<<"c", "1">>, <<"2", "0">>, <<"v", "B">>, <<"N">>, <<"<", "D", "E", "L", ">">>, <<"P", "R", "E", "C", "I", "S", "E", ";", "S", "V", "T", "Y", "P", "E", "=", "D", "E", "L", ";", "S", "V", "L", "E", "N", "=", "-", "5", "0">>),
      VcfRecord(<<"c", "1">>, <<"3", "0">>, <<"v", "C">>, <<"N">>, <<"<", "D", "U", "P", ">">>, <<"S", "V", "T", "Y", "P", "E", "=", "D", "U", "P", ";", "S", "V", "L", "E", "N", "=", "5", "0">>),
      VcfRecord(<<"c", "1">>, <<"4", "0">>, <<"v", "D">>, <<"A">>, <<"T">>, <<"P", "R", "E", "C", "I", "S", "E">>),
      VcfRecord(<<"c", "1">>, <<"5", "0">>, <<"v", "E">>, <<"N">>, <<"A", "C", "G", "T">>, <<"S", "V", "T", "Y", "P", "E", "=", "I", "N", "S", ";", "S", "V", "L", "E", "N", "=", "4", ";", "E", "N", "D", "=", "5", "0">>),
      VcfRecord(<<"c", "1">>, <<"6", "0">>, <<"v", "F">>, <<"N">>, <<"N", "]", "c", "2", ":", "5", "0", "0", "0", "]">>, <<"S", "V", "T", "Y", "P", "E", "=", "B", "N", "D">>),
      VcfRecord(<<"c", "1">>, <<"7", "0">>, <<"v", "G">>, <<"N">>, <<"N", "]", "c", "2", ":", "0", "]">>, <<"S", "V", "T", "Y", "P", "E", "=", "B", "N", "D">>),
      VcfRecord(<<"c", "1">>, <<"8", "0">>, <<"v", "H">>, <<"N">>, <<"<", "B", "N", "D", ">">>, <<"S", "V", "T", "Y", "P", "E", "=", "B", "N", "D">>),
      VcfRecord(<<"c", "1">>, <<"9", "0">>, <<"v", "I">>, <<"N">>, <<"]", "c", "2", ":", "7", "]", "N">>, <<"S", "V", "T", "Y", "P", "E", "=", "B", "N", "D", ";", "S", "V", "L", "E", "N", "=", "0">>),
      VcfRecord(<<"c", "2">>, <<"5">>, <<"v", "J">>, <<"N">>, <<"<", "I", "N", "V", ">">>, <<"S", "V", "T", "Y", "P", "E", "=", "I", "N", "V", ";", "E", "N", "D", "=", "9", "0", "0">>) \o <<<<"0", "/", "1">>>>,
      <<<<"c", "2">>, <<"6">>, <<"v", "K">>, <<"N">>, <<"<", "D", "E", "L", ">">>, <<".">>, <<"P", "A", "S", "S">>, <<"S", "V", "T", "Y", "P", "E", "=", "D", "E", "L", ";", "E", "N", "D", "=", "9">>>>,
      VcfRecord(<<"c", "1">>, <<"x">>, <<"v", "L">>, <<"N">>, <<"<", "D", "E", "L", ">">>, <<"S", "V", "T", "Y", "P", "E", "=", "D", "E", "L", ";", "E", "N", "D", "=", "9">>) }

\* The files of at most n lines over the line set L.
Files(L, n) == UNION {[1..k -> L] : k \in 0..n}

\* The variables of the tools that do not run.
vcfIdle ==
    /\ vcf = <<>> /\ parse_bnd = TRUE /\ include_ins = FALSE
    /\ line_count = 0 /\ bed = <<>> /\ bed_on_disk = FALSE
    /\ variant_count = 0
    /\ skipped_ins_count = 0 /\ parsed_bnd_count = 0
    /\ unparsed_bnd_count = 0 /\ warnings = 0
bndIdle == alt_field = <<>> /\ bnd_result = Unresolved
bedIdle ==
    /\ bed_in = <<>> /\ flank_size = 0 /\ min_coord = 0
    /\ skip_invalid = FALSE /\ lines_read = 0 /\ lines_written = 0
    /\ lines_skipped = 0 /\ bed_out = <<>> /\ bed_out_on_disk = FALSE
sqIdle ==
    /\ sq_in = <<>> /\ skip_header = FALSE /\ no_header = FALSE
    /\ sq_line_num = 0 /\ variants = <<>> /\ valid_count = 0
    /\ skipped_count = 0 /\ tsv = <<>>
annIdle ==
    /\ ann_in = <<>> /\ lookup_dict = <<>> /\ use_stdout = FALSE
    /\ ann_line_num = 0 /\ last_info_line = FALSE /\ header_written = FALSE
    /\ total_records = 0 /\ annotated_records = 0 /\ ann_out = <<>>
    /\ ann_out_on_disk = FALSE
    /\ overwrite = FALSE /\ output_existed = FALSE /\ ann_step = "idle"
faIdle ==
    /\ fa_in = <<>> /\ min_length = 1 /\ max_length = 0
    /\ fa_line_num = 0 /\ fasta = <<>>
    /\ insertions_extracted = 0 /\ symbolic_skipped = 0
orchIdle ==
    /\ step = "idle" /\ started = <<>> /\ returncode = 0 /\ fs = {}
    /\ path_tools = {} /\ arg_path = <<>> /\ touched = {}
    /\ keep_intermediates = FALSE /\ remove_log = FALSE
    /\ cleanup_started = FALSE

\* vcf2bed.py input.vcf [-o out.bed] [--no-BND-parse] [--include-INS]
Init ==
    /\ tool = "vcf2bed" /\ status = "running"
    /\ vcf \in Files(VcfLines, MaxVcfLines)
    /\ parse_bnd \in BOOLEAN
    /\ include_ins \in BOOLEAN
    /\ line_count = 0 /\ bed = <<>> /\ bed_on_disk = TRUE
    /\ variant_count = 0
    /\ skipped_ins_count = 0 /\ parsed_bnd_count = 0
    /\ unparsed_bnd_count = 0 /\ warnings = 0
    /\ bndIdle /\ bedIdle /\ sqIdle /\ annIdle /\ orchIdle /\ faIdle

Next == vcf_to_bed_line \/ vcf_to_bed_end

Spec == Init /\ [][Next]_vars

(***************************************************************************)
(* The INFO column as the specification reads it: a mapping from key to    *)
(* value, entries separated by ';', key and value by the first '='; a key  *)
(* given twice keeps its last value.                                       *)
(***************************************************************************)
IndexOf(s, c) == Min({i \in 1..Len(s) : s[i] = c})
Has(s, c) == \E i \in 1..Len(s) : s[i] = c

RECURSIVE SplitOn(_, _)
SplitOn(s, c) ==
    IF ~Has(s, c) THEN <<s>>
    ELSE <<SubSeq(s, 1, IndexOf(s, c) - 1)>>
         \o SplitOn(SubSeq(s, IndexOf(s, c) + 1, Len(s)), c)

InfoEntries(info) == SplitOn(info, ";")
EntryKey(e) == IF Has(e, "=") THEN SubSeq(e, 1, IndexOf(e, "=") - 1) ELSE e
EntryValue(e) == SubSeq(e, IndexOf(e, "=") + 1, Len(e))
InfoHas(info, key) ==
    \E i \in 1..Len(InfoEntries(info)) :
        Has(InfoEntries(info)[i], "=") /\ EntryKey(InfoEntries(info)[i]) = key
InfoValue(info, key) ==
    LET es == InfoEntries(info)
        at == {i \in 1..Len(es) : Has(es[i], "=") /\ EntryKey(es[i]) = key}
    IN  EntryValue(es[CHOOSE i \in at : \A j \in at : j <= i])

\* The record the loop has just read, and the lines it has just written.
Reading == tool = "vcf2bed" /\ line_count' = line_count + 1
Record == vcf[line_count']
Written == SubSeq(bed', Len(bed) + 1, Len(bed'))

\* A data record with the nine columns CHROM .. FORMAT and an integer POS.
IsRecord(line) == ~startswith_hash(line) /\ Len(line) >= 9 /\ IsInt(line[2])

\* The end position the specification resolves for a record.
ResolvedEnd(rec) ==
    IF InfoHas(rec[8], S_END) THEN int(InfoValue(rec[8], S_END))
    ELSE IF InfoHas(rec[8], S_SVLEN) /\ int(InfoValue(rec[8], S_SVLEN)) < 0
         THEN int(rec[2]) + abs(int(InfoValue(rec[8], S_SVLEN)))
         ELSE int(rec[2])

IsType(rec, t) == InfoHas(rec[8], S_SVTYPE) /\ InfoValue(rec[8], S_SVTYPE) = t

ReadingBnd == Reading /\ IsRecord(Record) /\ IsType(Record, S_BND) /\ parse_bnd
Mate == parse_bnd_alt(Record[5])

\* C4: a BND record whose ALT resolves to mate position 0 gets, after its
\* base line, a mate line with start 0 and end 1 on the mate chromosome.
C4_TelomericMate ==
    [][(ReadingBnd /\ Mate # Unresolved /\ Mate[2] = 0)
         => /\ Len(Written) = 2
            /\ Written[2][1] = Mate[1]
            /\ Written[2][2] = str(0)
            /\ Written[2][3] = str(1)]_vars

\* C5: a BND record gets its base line and then, exactly when the mate was
\* resolved, a mate line [mate_pos - 1, mate_pos) ([0, 1) at position 0) with
\* the same id and carried fields; an unresolved mate is counted and the run
\* goes on.
C5_MateLine ==
    [][ReadingBnd
         => /\ Len(Written) >= 1
            /\ Written[1][2] = str(int(Record[2]) - 1)
            /\ IF Mate # Unresolved
               THEN /\ Len(Written) = 2
                    /\ Written[2][1] = Mate[1]
                    /\ Written[2][2] = str(IF Mate[2] = 0 THEN 0 ELSE Mate[2] - 1)
                    /\ Written[2][3] = str(IF Mate[2] = 0 THEN 1 ELSE Mate[2])
                    /\ \A k \in 4..10 : Written[2][k] = Written[1][k]
                    /\ unparsed_bnd_count' = unparsed_bnd_count
               ELSE /\ Len(Written) = 1
                    /\ unparsed_bnd_count' = unparsed_bnd_count + 1
            /\ status' = "running"]_vars

(***************************************************************************)
(* parse_bnd_alt on its own: every ALT string over a small alphabet.       *)
(***************************************************************************)
AltAlphabet == {"N", "[", "]", "c", ":", "5", "0"}
AltStrings == UNION {[1..k -> AltAlphabet] : k \in 0..MaxAltLen}

InitBnd ==
    /\ tool = "parse_bnd_alt" /\ status = "running"
    /\ alt_field \in AltStrings
    /\ bnd_result = Unresolved
    /\ vcfIdle /\ bedIdle /\ sqIdle /\ annIdle /\ orchIdle /\ faIdle

call_parse_bnd_alt ==
    /\ tool = "parse_bnd_alt" /\ status = "running"
    /\ bnd_result' = parse_bnd_alt(alt_field)
    /\ status' = "ok"
    /\ UNCHANGED <<tool, alt_field, vcfVars, bedVars, sqVars, annVars, orchVars, faVars>>

NextBnd == call_parse_bnd_alt

SpecBnd == InitBnd /\ [][NextBnd]_vars

\* The mate-breakpoint notations: a bracket at i, a colon at j and a bracket
\* at k, with a chromosome name between i and j and a decimal position
\* between j and k; a run of bases before the first bracket or after the
\* second one, never both.
AllIn(s, a, b, C) == \A x \in a..b : s[x] \in C
MateTokens(s) ==
    {t \in (1..Len(s)) \X (1..Len(s)) \X (1..Len(s)) :
        /\ t[1] + 1 < t[2] /\ t[2] + 1 < t[3]
        /\ s[t[1]] \in Brackets /\ s[t[2]] = ":" /\ s[t[3]] \in Brackets
        /\ \A x \in (t[1] + 1)..(t[2] - 1) : s[x] # ":"
        /\ AllIn(s, t[2] + 1, t[3] - 1, DigitSet)
        /\ AllIn(s, 1, t[1] - 1, Bases)
        /\ AllIn(s, t[3] + 1, Len(s), Bases)
        /\ (t[1] = 1 \/ t[3] = Len(s))}
TokenChrom(s, t) == SubSeq(s, t[1] + 1, t[2] - 1)
TokenPos(s, t) == int(SubSeq(s, t[2] + 1, t[3] - 1))

\* C3: parse_bnd_alt returns the (chrom, pos) of the embedded token for every
\* ALT string in one of the three notations, and (None, None) for every
\* other string.
C3_ParseBndAlt ==
    (tool = "parse_bnd_alt" /\ status = "ok")
      => IF MateTokens(alt_field) = {}
         THEN bnd_result = Unresolved
         ELSE \A t \in MateTokens(alt_field) :
                 bnd_result = <<TokenChrom(alt_field, t), TokenPos(alt_field, t)>>

\* ]c:5]N, the notation with the bases after the brackets, has been resolved.
C3_Witness ==
    /\ tool = "parse_bnd_alt" /\ status = "ok"
    /\ alt_field = <<"]", "c", ":", "5", "]", "N">>
    /\ bnd_result = <<<<"c">>, 5>>

(***************************************************************************)
(* bed_processor.py                                                        *)
(***************************************************************************)
\* re.search(r'SVTYPE=([^;]+)', info_field): the pattern of
\* extract_info_field with the name fixed.
extract_svtype(info_field) == extract_info_field(info_field, S_SVTYPE)

\* 'SVTYPE=' in field
has_svtype_token(field) ==
    LET token == S_SVTYPE \o <<"=">>
    IN  \E i \in 1..Len(field) :
            /\ i + Len(token) - 1 <= Len(field)
            /\ SubSeq(field, i, i + Len(token) - 1) = token

\* The field taken as INFO: column 9, else column 8, else the first later
\* column that holds 'SVTYPE=' (fields is 1-based here); None when no column
\* from the 8th on holds it.
find_info_field(fields) ==
    IF Len(fields) > 8 /\ has_svtype_token(fields[9]) THEN fields[9]
    ELSE IF Len(fields) > 7 /\ has_svtype_token(fields[8]) THEN fields[8]
    ELSE LET found == {i \in 8..Len(fields) : has_svtype_token(fields[i])}
         IN  IF found = {} THEN None ELSE fields[Min(found)]

\* process_deletion without the floor.
process_deletion_unclamped(start, end, fields, flank, floor) ==
    << [fields EXCEPT ![2] = str(start - flank),
                      ![3] = str(end + flank)] >>

process_deletion(start, end, fields, flank, floor) ==
    << [fields EXCEPT ![2] = str(max(floor, start - flank)),
                      ![3] = str(end + flank)] >>

\* process_duplication_inversion with the second row around the start
\* breakpoint as well.
process_duplication_inversion_same_anchor(start, end, fields, flank, floor) ==
    << [fields EXCEPT ![2] = str(max(floor, start - flank)),
                      ![3] = str(start + flank)],
       [fields EXCEPT ![2] = str(max(floor, start - flank)),
                      ![3] = str(start + flank)] >>

\* process_duplication_inversion without the floor.
process_duplication_inversion_unclamped(start, end, fields, flank, floor) ==
    << [fields EXCEPT ![2] = str(start - flank),
                      ![3] = str(start + flank)],
       [fields EXCEPT ![2] = str(end - flank),
                      ![3] = str(end + flank)] >>

process_duplication_inversion(start, end, fields, flank, floor) ==
    << [fields EXCEPT ![2] = str(max(floor, start - flank)),
                      ![3] = str(start + flank)],
       [fields EXCEPT ![2] = str(max(floor, end - flank)),
                      ![3] = str(end + flank)] >>

\* A line with fewer fields than this is invalid.
MinBedFields == 8

\* process_bed_line with every SVTYPE, recognised or not, flanked as a DEL.
process_bed_line_flank_any_type(raw, flank, floor, skipInvalid) ==
    LET line == strip(raw)
        fields == split(line)
        returns(ls) == [lines |-> ls, raised |-> FALSE]
        invalid == IF skipInvalid THEN returns(<<>>)
                   ELSE [lines |-> <<>>, raised |-> TRUE]
    IN  IF line = <<>> THEN returns(<<>>)
        ELSE IF startswith_hash(line) THEN returns(<<line>>)
        ELSE IF Len(fields) < MinBedFields THEN invalid
        ELSE IF ~IsInt(fields[2]) \/ ~IsInt(fields[3]) THEN invalid
        ELSE IF find_info_field(fields) = None THEN returns(<<line>>)
        ELSE IF extract_svtype(find_info_field(fields)) = None
             THEN returns(<<line>>)
        ELSE LET svtype == extract_svtype(find_info_field(fields))
                 start == int(fields[2])
                 end == int(fields[3])
             IN  IF svtype = S_DEL
                 THEN returns(process_deletion(start, end, fields, flank, floor))
                 ELSE IF svtype \in {S_DUP, S_INV}
                 THEN returns(process_duplication_inversion(start, end, fields,
                                                            flank, floor))
                 ELSE returns(process_deletion(start, end, fields, flank, floor))

\* process_bed_line: the lines it returns, or raised = TRUE for ValueError.
process_bed_line(raw, flank, floor, skipInvalid) ==
    LET line == strip(raw)
        fields == split(line)
        returns(ls) == [lines |-> ls, raised |-> FALSE]
        invalid == IF skipInvalid THEN returns(<<>>)
                   ELSE [lines |-> <<>>, raised |-> TRUE]
    IN  IF line = <<>> THEN returns(<<>>)
        ELSE IF startswith_hash(line) THEN returns(<<line>>)
        ELSE IF Len(fields) < MinBedFields THEN invalid
        ELSE IF ~IsInt(fields[2]) \/ ~IsInt(fields[3]) THEN invalid
        ELSE IF find_info_field(fields) = None THEN returns(<<line>>)
        ELSE IF extract_svtype(find_info_field(fields)) = None
             THEN returns(<<line>>)
        ELSE LET svtype == extract_svtype(find_info_field(fields))
                 start == int(fields[2])
                 end == int(fields[3])
             IN  IF svtype = S_DEL
                 THEN returns(process_deletion(start, end, fields, flank, floor))
                 ELSE IF svtype \in {S_DUP, S_INV}
                 THEN returns(process_duplication_inversion(start, end, fields,
                                                            flank, floor))
                 ELSE returns(<<line>>)

\* for line_num, line in enumerate(infile, 1): one iteration.  A ValueError
\* leaves the loop and main() returns 2.
process_bed_file_line ==
    /\ tool = "bed_processor" /\ status = "running"
    /\ lines_read < Len(bed_in)
    /\ LET r == process_bed_line(bed_in[lines_read + 1], flank_size, min_coord,
                                 skip_invalid)
       IN  /\ lines_read' = lines_read + 1
           /\ bed_out' = bed_out \o r.lines
           /\ lines_written' = lines_written + Len(r.lines)
           /\ lines_skipped' = IF r.lines = <<>> /\ ~r.raised
                               THEN lines_skipped + 1 ELSE lines_skipped
           /\ status' = IF r.raised THEN "exit2" ELSE status
    /\ UNCHANGED <<tool, bed_in, flank_size, min_coord, skip_invalid,
                   bed_out_on_disk, vcfVars, bndVars, sqVars, annVars,
                   orchVars, faVars>>

\* The file is read through: the summary is printed, main() returns 0.
process_bed_file_end ==
    /\ tool = "bed_processor" /\ status = "running"
    /\ lines_read = Len(bed_in)
    /\ status' = "ok"
    /\ UNCHANGED <<tool, bedVars, vcfVars, bndVars, sqVars, annVars, orchVars, faVars>>

\* --flank-size and --min-coord default to these.
DefaultFlank == 1000
DefaultMinCoord == 0

(***************************************************************************)
(* Input of bed_processor.py: lines as vcf2bed.py writes them (ten         *)
(* columns, INFO in the ninth), plain BED lines with INFO in the eighth    *)
(* column, and lines that are no intervals.                                *)
(***************************************************************************)
BedRecord(chrom, start, end, id, alt, info, format) ==
    <<chrom, start, end, id, <<"N">>, alt, <<".">>, <<"P", "A", "S", "S">>, info, format>>

BedLines ==
    { BedRecord(<<"c", "1">>, <<"9", "9", "9">>, <<"2", "0", "0", "0">>, <<"v", "A">>, <<"<", "D", "E", "L", ">">>, <<"S", "V", "T", "Y", "P", "E", "=", "D", "E", "L", ";", "E", "N", "D", "=", "2", "0", "0", "0">>, <<"G", "T">>),
      BedRecord(<<"c", "1">>, <<"5", "0", "0", "0">>, <<"5", "0", "5", "0">>, <<"v", "B">>, <<"<", "D", "E", "L", ">">>, <<"S", "V", "T", "Y", "P", "E", "=", "D", "E", "L", ";", "S", "V", "L", "E", "N", "=", "-", "5", "0">>, <<"G", "T">>),
      BedRecord(<<"c", "1">>, <<"2", "9">>, <<"3", "0">>, <<"v", "C">>, <<"<", "D", "U", "P", ">">>, <<"S", "V", "T", "Y", "P", "E", "=", "D", "U", "P", ";", "S", "V", "L", "E", "N", "=", "5", "0">>, <<"G", "T">>),
      BedRecord(<<"c", "2">>, <<"4">>, <<"9", "0", "0">>, <<"v", "J">>, <<"<", "I", "N", "V", ">">>, <<"S", "V", "T", "Y", "P", "E", "=", "I", "N", "V", ";", "E", "N", "D", "=", "9", "0", "0">>, <<"G", "T">>),
      BedRecord(<<"c", "1">>, <<"5", "9">>, <<"6", "0">>, <<"v", "F">>, <<"N", "]", "c", "2", ":", "5", "0", "0", "0", "]">>, <<"S", "V", "T", "Y", "P", "E", "=", "B", "N", "D">>, <<"G", "T">>),
      BedRecord(<<"c", "1">>, <<"4", "9">>, <<"5", "0">>, <<"v", "E">>, <<"A", "C", "G", "T">>, <<"S", "V", "T", "Y", "P", "E", "=", "I", "N", "S", ";", "S", "V", "L", "E", "N", "=", "4">>, <<"G", "T">>),
      BedRecord(<<"c", "1">>, <<"7", "0", "0", "0">>, <<"7", "1", "0", "0">>, <<"v", "M">>, <<"<", "C", "N", "V", ">">>, <<"S", "V", "T", "Y", "P", "E", "=", "C", "N", "V">>, <<"G", "T">>),
      BedRecord(<<"c", "1">>, <<"6", "9">>, <<"7", "0">>, <<"v", "G">>, <<"N", "]", "c", "2", ":", "0", "]">>, <<"S", "V", "T", "Y", "P", "E", "=", "B", "N", "D">>, <<>>),
      BedRecord(<<"c", "2">>, <<"3", "0", "0">>, <<"4", "0", "0">>, <<"v", "N">>, <<"<", "D", "E", "L", ">">>, <<"S", "V", "T", "Y", "P", "E", "=", "D", "E", "L", ";", "E", "N", "D", "=", "4", "0", "0">>, <<>>),
      <<<<"c", "1">>, <<"1", "0">>, <<"2", "0">>, <<"v", "X">>, <<"N">>, <<"<", "D", "U", "P", ">">>, <<".">>, <<"S", "V", "T", "Y", "P", "E", "=", "D", "U", "P">>>>,
      BedRecord(<<"c", "1">>, <<"3", "9">>, <<"4", "0">>, <<"v", "D">>, <<"T">>, <<"P", "R", "E", "C", "I", "S", "E">>, <<"G", "T">>),
      BedRecord(<<"c", "1">>, <<"4", "1">>, <<"4", "2">>, <<"v", "S">>, <<"T">>, <<"P", "R", "E", "C", "I", "S", "E">>, <<>>),
      <<<<"c", "1">>, <<"5">>, <<"9">>>>,
      BedRecord(<<"c", "1">>, <<"x">>, <<"9">>, <<"v", "L">>, <<"<", "D", "E", "L", ">">>, <<"S", "V", "T", "Y", "P", "E", "=", "D", "E", "L", ";", "E", "N", "D", "=", "9">>, <<"G", "T">>),
      <<<<"#", "c", "h", "r", "o", "m">>, <<"s", "t", "a", "r", "t">>, <<"e", "n", "d">>>>,
      << <<>> >> }

FlankSizes == {DefaultFlank, 50}
MinCoords == {DefaultMinCoord, 100}

\* bed_processor.py input.bed [-o out.bed] [-f F] [--min-coord M] [--skip-invalid]
InitBed ==
    /\ tool = "bed_processor" /\ status = "running"
    /\ bed_in \in Files(BedLines, MaxBedLines)
    /\ flank_size \in FlankSizes
    /\ min_coord \in MinCoords
    /\ skip_invalid \in BOOLEAN
    /\ lines_read = 0 /\ lines_written = 0 /\ lines_skipped = 0
    /\ bed_out = <<>> /\ bed_out_on_disk = TRUE
    /\ vcfIdle /\ bndIdle /\ sqIdle /\ annIdle /\ orchIdle /\ faIdle

NextBed == process_bed_file_line \/ process_bed_file_end

SpecBed == InitBed /\ [][NextBed]_vars

\* Lines at the edge of the eight-column test: eight columns of which the
\* last is empty, three columns, a start that is no integer, and two valid
\* lines.
EdgeColumnLines ==
    { <<<<"c", "1">>, <<"1", "0">>, <<"2", "0">>, <<"v", "Y">>, <<"N">>, <<"T">>, <<".">>, <<>>>>,
      <<<<"c", "1">>, <<"5">>, <<"9">>>>,
      BedRecord(<<"c", "1">>, <<"x">>, <<"9">>, <<"v", "L">>, <<"<", "D", "E", "L", ">">>, <<"S", "V", "T", "Y", "P", "E", "=", "D", "E", "L", ";", "E", "N", "D", "=", "9">>, <<"G", "T">>),
      BedRecord(<<"c", "1">>, <<"9", "9", "9">>, <<"2", "0", "0", "0">>, <<"v", "A">>, <<"<", "D", "E", "L", ">">>, <<"S", "V", "T", "Y", "P", "E", "=", "D", "E", "L", ";", "E", "N", "D", "=", "2", "0", "0", "0">>, <<"G", "T">>),
      BedRecord(<<"c", "1">>, <<"5", "9">>, <<"6", "0">>, <<"v", "F">>, <<"N", "]", "c", "2", ":", "5", "0", "0", "0", "]">>, <<"S", "V", "T", "Y", "P", "E", "=", "B", "N", "D">>, <<"G", "T">>) }

InitEdgeColumns ==
    /\ tool = "bed_processor" /\ status = "running"
    /\ bed_in \in Files(EdgeColumnLines, MaxBedLines)
    /\ flank_size \in FlankSizes
    /\ min_coord \in MinCoords
    /\ skip_invalid \in BOOLEAN
    /\ lines_read = 0 /\ lines_written = 0 /\ lines_skipped = 0
    /\ bed_out = <<>> /\ bed_out_on_disk = TRUE
    /\ vcfIdle /\ bndIdle /\ sqIdle /\ annIdle /\ orchIdle /\ faIdle

SpecEdgeColumns == InitEdgeColumns /\ [][NextBed]_vars

\* The line process_bed_file has just read, and the lines it has just written.
BedReading == tool = "bed_processor" /\ lines_read' = lines_read + 1
BedLine == bed_in[lines_read']
BedWritten == SubSeq(bed_out', Len(bed_out) + 1, Len(bed_out'))

\* An interval line: at least eight columns, integer start and end.
IsInterval(line) ==
    /\ ~startswith_hash(line) /\ Len(line) >= 8
    /\ line[1] # <<>> /\ IsInt(line[2]) /\ IsInt(line[3])

\* The SVTYPE a line declares: the value of the SVTYPE key of a column from
\* the eighth on.
TypeColumns(line) == {i \in 8..Len(line) : InfoHas(line[i], S_SVTYPE)}
HasType(line) == TypeColumns(line) # {}
TypeOf(line) == InfoValue(line[Min(TypeColumns(line))], S_SVTYPE)

\* Column i of a line; a column the line does not have holds nothing.
Col(line, i) == IF i <= Len(line) THEN line[i] ELSE <<>>
Width(a, b) == IF Len(a) >= Len(b) THEN Len(a) ELSE Len(b)
SameOtherColumns(out, in) ==
    \A i \in 1..Width(out, in) : i \notin {2, 3} => Col(out, i) = Col(in, i)

C8_PassThroughVerbatim ==
    [][(BedReading /\ IsInterval(BedLine) /\ HasType(BedLine)
        /\ TypeOf(BedLine) \notin {S_DEL, S_DUP, S_INV})
         => BedWritten = <<BedLine>>]_vars

\* An interval line of the output.
IsIntervalOut(line) == Len(line) >= 3 /\ IsInt(line[2]) /\ ~startswith_hash(line)

\* C9 as stated: every interval line written, of every SVTYPE, starts at or
\* above min_coord.
C9_EveryStartAboveFloor ==
    tool = "bed_processor"
      => \A i \in 1..Len(bed_out) :
            IsIntervalOut(bed_out[i]) => int(bed_out[i][2]) >= min_coord

\* C9 amended: every line written for a DEL, DUP or INV line starts at or
\* above min_coord; a line of any other SVTYPE keeps the start it came with.
C9_FlankedStartAboveFloor ==
    [][(BedReading /\ IsInterval(BedLine) /\ HasType(BedLine))
         => IF TypeOf(BedLine) \in {S_DEL, S_DUP, S_INV}
            THEN \A i \in 1..Len(BedWritten) :
                    int(BedWritten[i][2]) >= min_coord
            ELSE \A i \in 1..Len(BedWritten) :
                    BedWritten[i][2] = BedLine[2]]_vars

\* With the floor at 100, a DEL line at 999 has been clamped to start 100.
C9_Witness ==
    /\ tool = "bed_processor" /\ lines_read = 1
    /\ min_coord = 100 /\ flank_size = 1000
    /\ IsInterval(bed_in[1]) /\ HasType(bed_in[1])
    /\ TypeOf(bed_in[1]) = S_DEL /\ bed_in[1][2] = <<"9", "9", "9">>
    /\ Len(bed_out) = 1 /\ bed_out[1][2] = <<"1", "0", "0">>

(***************************************************************************)
(* squash_intersect.py                                                     *)
(***************************************************************************)
\* The characters in code-point order, for the comparison of str.
CodePoints == <<"#", "+", ",", "-", ".", "0", "1", "2", "3", "4", "5", "6", "7", "8", "9", ":", ";", "<", "=", ">", "A", "B", "C", "D", "E", "F", "G", "H", "I", "J", "K", "L", "M", "N", "O", "P", "Q", "R", "S", "T", "U", "V", "W", "X", "Y", "Z", "[", "]", "_", "a", "b", "c", "d", "e", "f", "g", "h", "i", "j", "k", "l", "m", "n", "o", "p", "q", "r", "s", "t", "u", "v", "w", "x", "y", "z", "|">>
Ord(c) == CHOOSE i \in 1..Len(CodePoints) : CodePoints[i] = c

\* a < b for two str: by code point at the first difference, a proper prefix
\* first.
RECURSIVE str_less(_, _)
str_less(a, b) ==
    IF b = <<>> THEN FALSE
    ELSE IF a = <<>> THEN TRUE
    ELSE IF Head(a) = Head(b) THEN str_less(Tail(a), Tail(b))
    ELSE Ord(Head(a)) < Ord(Head(b))

\* sorted(keys)
RECURSIVE sorted(_)
sorted(keys) ==
    IF keys = {} THEN <<>>
    ELSE LET least == CHOOSE k \in keys : \A o \in keys \ {k} : str_less(k, o)
         IN  <<least>> \o sorted(keys \ {least})

\* sep.join(parts)
RECURSIVE join(_, _)
join(sep, parts) ==
    IF parts = <<>> THEN <<>>
    ELSE IF Len(parts) = 1 THEN parts[1]
    ELSE parts[1] \o <<sep>> \o join(sep, Tail(parts))

\* A row with fewer columns than this is skipped.
MinColumns == 19

\* process_bed_line of squash_intersect.py: (SnifflesID, columns 11-19), or
\* (None, None) for an empty line, a comment and a row that is too short.
\* process_bed_line without the test on the number of columns.
squash_process_bed_line_any_width(raw) ==
    LET line == strip(raw)
        columns == split(line)
    IN  IF line = <<>> \/ startswith_hash(line) THEN <<None, None>>
        ELSE <<IF Len(columns) >= 4 THEN columns[4] ELSE <<>>,
               SubSeq(columns, Min({11, Len(columns) + 1}), Min({19, Len(columns)}))>>

squash_process_bed_line(raw) ==
    LET line == strip(raw)
        columns == split(line)
    IN  IF line = <<>> \/ startswith_hash(line) THEN <<None, None>>
        ELSE IF Len(columns) < MinColumns THEN <<None, None>>
        ELSE <<columns[4], SubSeq(columns, 11, 19)>>

\* dict_append with the new element list put first.
dict_append_front(d, key, elements) ==
    IF \E i \in 1..Len(d) : d[i].id = key
    THEN [i \in 1..Len(d) |->
            IF d[i].id = key THEN [d[i] EXCEPT !.rows = <<elements>> \o @]
            ELSE d[i]]
    ELSE Append(d, [id |-> key, rows |-> <<elements>>])

\* variants[sniffles_id].append(elements) on the dict, given as the sequence
\* of its items in insertion order.
dict_append(d, key, elements) ==
    IF \E i \in 1..Len(d) : d[i].id = key
    THEN [i \in 1..Len(d) |->
            IF d[i].id = key THEN [d[i] EXCEPT !.rows = Append(@, elements)]
            ELSE d[i]]
    ELSE Append(d, [id |-> key, rows |-> <<elements>>])

dict_keys(d) == {d[i].id : i \in 1..Len(d)}
dict_get(d, key) == d[CHOOSE i \in 1..Len(d) : d[i].id = key].rows

\* squash_variants, one iteration of its loop.  The id None is told from a
\* text by the elements, which are None with it.
squash_variants_line ==
    /\ tool = "squash_intersect" /\ status = "running"
    /\ sq_line_num < Len(sq_in)
    /\ sq_line_num' = sq_line_num + 1
    /\ LET r == squash_process_bed_line(sq_in[sq_line_num + 1])
       IN  IF sq_line_num + 1 = 1 /\ skip_header
           THEN UNCHANGED <<variants, valid_count, skipped_count>>
           ELSE IF r[2] = None
           THEN /\ skipped_count' = skipped_count + 1
                /\ UNCHANGED <<variants, valid_count>>
           ELSE /\ variants' = dict_append(variants, r[1], r[2])
                /\ valid_count' = valid_count + 1
                /\ UNCHANGED skipped_count
    /\ UNCHANGED <<tool, status, sq_in, skip_header, no_header, tsv,
                   vcfVars, bndVars, bedVars, annVars, orchVars, faVars>>

\* format_output_line with the tuples joined by the field delimiter too.
format_output_line_one_delimiter(sniffles_id, element_lists) ==
    <<sniffles_id,
      join(",", [i \in 1..Len(element_lists) |-> join(",", element_lists[i])])>>

format_output_line(sniffles_id, element_lists) ==
    <<sniffles_id,
      join("|", [i \in 1..Len(element_lists) |-> join(",", element_lists[i])])>>

HeaderLine == <<<<"S", "n", "i", "f", "f", "l", "e", "s", "I", "D">>, <<"E", "l", "e", "m", "e", "n", "t", "s">>>>

write_output(d, noHeader) ==
    (IF noHeader THEN <<>> ELSE <<HeaderLine>>)
    \o [i \in 1..Len(sorted(dict_keys(d))) |->
          format_output_line(sorted(dict_keys(d))[i],
                             dict_get(d, sorted(dict_keys(d))[i]))]

\* main() after squash_variants: no variants is exit code 1, else the output
\* is written.
squash_main_write ==
    /\ tool = "squash_intersect" /\ status = "running"
    /\ sq_line_num = Len(sq_in)
    /\ IF variants = <<>>
       THEN status' = "exit1" /\ tsv' = tsv
       ELSE status' = "ok" /\ tsv' = write_output(variants, no_header)
    /\ UNCHANGED <<tool, sq_in, skip_header, no_header, sq_line_num, variants,
                   valid_count, skipped_count, vcfVars, bndVars, bedVars,
                   annVars, orchVars, faVars>>

(***************************************************************************)
(* Input of squash_intersect.py: rows of bedtools intersect -wa -wb, the   *)
(* ten columns of a processed line followed by those of the reference.     *)
(***************************************************************************)
Row(id, e) ==
    <<<<"c", "1">>, <<"1">>, <<"2">>, id, <<"N">>, <<"<", "D", "E", "L", ">">>, <<".">>, <<"P", "A", "S", "S">>, <<"I">>, <<"G", "T">>>> \o e

E1 == <<<<"c", "1">>, <<"0">>, <<"9">>, <<"L", "1">>, <<"L", "I", "N", "E">>, <<"+">>, <<"1">>, <<"5">>, <<"7">>>>
E2 == <<<<"c", "1">>, <<"3">>, <<"8">>, <<"A", "l", "u">>, <<"S", "I", "N", "E">>, <<"-">>, <<"2">>, <<"4">>, <<"8">>>>
E3 == <<<<"c", "2">>, <<"6">>, <<"7">>, <<>>, <<"L", "T", "R">>, <<"+">>, <<>>, <<"9">>, <<"3">>>>
E4 == <<<<"c", "2">>, <<"1">>, <<"4">>, <<"L", "1", ",", "x">>, <<"L", "I", "N", "E">>, <<"+">>, <<"1">>, <<"2">>, <<"5">>>>

SqRows ==
    { Row(<<"v", "1">>, E1), Row(<<"v", "1">>, E2), Row(<<"v", "2">>, E3), Row(<<"v", "1", "0">>, E1),
      Row(<<"V", "2">>, E2), Row(<<"v", "5">>, E4), Row(<<"v", "2">>, E1) \o <<<<"x">>>>,
      Row(<<"v", "3">>, SubSeq(E1, 1, 8)),
      Row(<<"v", "4">>, SubSeq(E2, 1, 8) \o <<<<>>>>),
      <<<<"#", "c", "h", "r", "o", "m">>, <<"s", "t", "a", "r", "t">>>>,
      << <<>> >> }

\* squash_intersect.py input.bed [-o out.tsv] [--skip-header] [--no-header]
InitSquash ==
    /\ tool = "squash_intersect" /\ status = "running"
    /\ sq_in \in Files(SqRows, MaxRows)
    /\ skip_header \in BOOLEAN
    /\ no_header \in BOOLEAN
    /\ sq_line_num = 0 /\ variants = <<>> /\ valid_count = 0
    /\ skipped_count = 0 /\ tsv = <<>>
    /\ vcfIdle /\ bndIdle /\ bedIdle /\ annIdle /\ orchIdle /\ faIdle

NextSquash == squash_variants_line \/ squash_main_write

SpecSquash == InitSquash /\ [][NextSquash]_vars

\* A valid input row: a data row of at least nineteen columns, the first and
\* the last of them not empty.
ValidRow(row) ==
    /\ Len(row) >= 19 /\ ~startswith_hash(row)
    /\ row[1] # <<>> /\ row[Len(row)] # <<>>

\* The rows squash_variants aggregates: all but a skipped header line.
RowsRead == IF skip_header THEN Tail(sq_in) ELSE sq_in
RowKeys == {RowsRead[i][4] : i \in 1..Len(RowsRead)}
RECURSIVE TuplesOf(_, _)
TuplesOf(rows, key) ==
    IF rows = <<>> THEN <<>>
    ELSE (IF Head(rows)[4] = key THEN <<SubSeq(Head(rows), 11, 19)>> ELSE <<>>)
         \o TuplesOf(Tail(rows), key)
DataRows == IF no_header THEN tsv ELSE Tail(tsv)

\* C10: for valid input rows the output holds exactly one row per distinct
\* key, in ascending key order, each the key and the key's tuples in input
\* order, fields joined by ',' and tuples by '|'.
C10_Aggregation ==
    (/\ tool = "squash_intersect" /\ status = "ok"
     /\ \A i \in 1..Len(RowsRead) : ValidRow(RowsRead[i]))
      => /\ Len(DataRows) = Cardinality(RowKeys)
         /\ {DataRows[i][1] : i \in 1..Len(DataRows)} = RowKeys
         /\ \A i \in 1..(Len(DataRows) - 1) :
               str_less(DataRows[i][1], DataRows[i + 1][1])
         /\ \A i \in 1..Len(DataRows) :
               /\ Len(DataRows[i]) = 2
               /\ DataRows[i][2] =
                    join("|", [j \in 1..Len(TuplesOf(RowsRead, DataRows[i][1])) |->
                                 join(",", TuplesOf(RowsRead, DataRows[i][1])[j])])

\* The scenario of the specification: two rows of v1 around a row of V2 give
\* V2 first, then v1 with its two tuples in input order.
C10_Witness ==
    /\ tool = "squash_intersect" /\ status = "ok" /\ no_header /\ ~skip_header
    /\ sq_in = <<Row(<<"v", "1">>, E1), Row(<<"V", "2">>, E2), Row(<<"v", "1">>, E2)>>
    /\ tsv = <<<<<<"V", "2">>, join(",", E2)>>,
               <<<<"v", "1">>, join(",", E1) \o <<"|">> \o join(",", E2)>>>>

\* The Elements column read back: split on the row delimiter, then each
\* piece on the field delimiter.
SplitElements(text) ==
    [i \in 1..Len(SplitOn(text, "|")) |-> SplitOn(SplitOn(text, "|")[i], ",")]

\* No field of the tuples aggregated under a key holds a delimiter.
DelimiterFree(tuples) ==
    \A i \in 1..Len(tuples) : \A j \in 1..Len(tuples[i]) :
        ~Has(tuples[i][j], ",") /\ ~Has(tuples[i][j], "|")

run_bed_processor ==
    /\ tool = "vcf2bed" /\ status = "ok"
    /\ tool' = "bed_processor"
    /\ status' = "running"
    /\ bed_in' = bed
    /\ bed_out_on_disk' = TRUE
    /\ UNCHANGED <<flank_size, min_coord, skip_invalid, lines_read,
                   lines_written, lines_skipped, bed_out, vcfVars, bndVars,
                   sqVars, annVars, orchVars, faVars>>

InitChain ==
    /\ tool = "vcf2bed" /\ status = "running"
    /\ vcf \in Files(VcfLines, MaxVcfLines)
    /\ parse_bnd = TRUE /\ include_ins = FALSE
    /\ line_count = 0 /\ bed = <<>> /\ bed_on_disk = TRUE
    /\ variant_count = 0
    /\ skipped_ins_count = 0 /\ parsed_bnd_count = 0
    /\ unparsed_bnd_count = 0 /\ warnings = 0
    /\ bed_in = <<>>
    /\ flank_size \in FlankSizes
    /\ min_coord \in MinCoords
    /\ skip_invalid \in BOOLEAN
    /\ lines_read = 0 /\ lines_written = 0 /\ lines_skipped = 0
    /\ bed_out = <<>> /\ bed_out_on_disk = FALSE
    /\ bndIdle /\ sqIdle /\ annIdle /\ orchIdle /\ faIdle

NextChain ==
    \/ vcf_to_bed_line
    \/ vcf_to_bed_end
    \/ run_bed_processor
    \/ process_bed_file_line
    \/ process_bed_file_end

SpecChain == InitChain /\ [][NextChain]_vars

\* Both tools have run to their end.
ChainDone == tool = "bed_processor" /\ status = "ok" /\ bed_in = bed /\ vcf # <<>>

\* A DEL record that carries END.
DelWithEnd(rec) == IsRecord(rec) /\ IsType(rec, S_DEL) /\ InfoHas(rec[8], S_END)

\* The lines of a file whose column k holds id.
LinesOf(file, k, id) ==
    LET ofId(line) == Len(line) >= k /\ line[k] = id
    IN  SelectSeq(file, ofId)

HasFixedColumns(line) == ~startswith_hash(line) /\ Len(line) >= 8 /\ IsInt(line[2])

\* C13: a data line is rejected as malformed only when it has fewer than
\* eight fields, and then it is reported and skipped and the run goes on;
\* every line with eight or more fields produces its interval.
C13_MalformedBelowEight ==
    [][(Reading /\ ~startswith_hash(Record))
         => IF Len(Record) < 8
            THEN Written = <<>> /\ warnings' = warnings + 1 /\ status' = "running"
            ELSE (HasFixedColumns(Record)
                  /\ ~(IsType(Record, S_INS) /\ ~include_ins))
                    => /\ warnings' = warnings
                       /\ Len(Written) >= 1
                       /\ Written[1][1] = Record[1]
                       /\ Written[1][2] = str(int(Record[2]) - 1)]_vars

(***************************************************************************)
(* vcf2bed.py on records whose INFO repeats a key.                         *)
(***************************************************************************)
RepeatedKeyLines ==
    { VcfRecord(<<"c", "3">>, <<"5", "0">>, <<"v", "P">>, <<"N">>, <<"<", "D", "E", "L", ">">>, <<"S", "V", "T", "Y", "P", "E", "=", "D", "E", "L", ";", "E", "N", "D", "=", "1", "0", "0", ";", "E", "N", "D", "=", "2", "0", "0">>),
      VcfRecord(<<"c", "3">>, <<"6", "0">>, <<"v", "Q">>, <<"N">>, <<"<", "D", "E", "L", ">">>, <<"S", "V", "T", "Y", "P", "E", "=", "I", "N", "S", ";", "S", "V", "T", "Y", "P", "E", "=", "D", "E", "L", ";", "E", "N", "D", "=", "9", "0">>),
      VcfRecord(<<"c", "3">>, <<"7", "0">>, <<"v", "R">>, <<"N">>, <<"<", "D", "E", "L", ">">>, <<"S", "V", "T", "Y", "P", "E", "=", "D", "E", "L", ";", "S", "V", "L", "E", "N", "=", "-", "5", ";", "S", "V", "L", "E", "N", "=", "-", "9">>) }

InitRepeatedKeys ==
    /\ tool = "vcf2bed" /\ status = "running"
    /\ vcf \in Files(VcfLines \cup RepeatedKeyLines, MaxVcfLines)
    /\ parse_bnd \in BOOLEAN
    /\ include_ins \in BOOLEAN
    /\ line_count = 0 /\ bed = <<>> /\ bed_on_disk = TRUE
    /\ variant_count = 0
    /\ skipped_ins_count = 0 /\ parsed_bnd_count = 0
    /\ unparsed_bnd_count = 0 /\ warnings = 0
    /\ bndIdle /\ bedIdle /\ sqIdle /\ annIdle /\ orchIdle /\ faIdle

SpecRepeatedKeys == InitRepeatedKeys /\ [][Next]_vars

\* A key of SVTYPE, END, SVLEN occurs more than once in the INFO string.
Occurrences(info, key) ==
    Cardinality({i \in 1..Len(InfoEntries(info)) : EntryKey(InfoEntries(info)[i]) = key})
RepeatsKey(info) == \E key \in {S_SVTYPE, S_END, S_SVLEN} : Occurrences(info, key) > 1

\* C14: when SVTYPE, END or SVLEN occurs more than once in INFO, the last
\* occurrence classifies the record and gives its end.
C14_LastOccurrence ==
    [][(Reading /\ IsRecord(Record) /\ RepeatsKey(Record[8]))
         => IF IsType(Record, S_INS) /\ ~include_ins
            THEN Written = <<>>
            ELSE /\ Len(Written) >= 1
                 /\ Written[1][3] = str(ResolvedEnd(Record))]_vars

\* No column from the eighth on holds an SVTYPE= token.
NoTypeToken(line) == \A i \in 8..Len(line) : ~has_svtype_token(line[i])

\* C15: a line with valid coordinates and no SVTYPE= token from column 8 on
\* is written as exactly one unchanged line, and the run does not abort,
\* with or without skip_invalid.
C15_UntypedPassThrough ==
    [][(BedReading /\ IsInterval(BedLine) /\ NoTypeToken(BedLine))
         => BedWritten = <<BedLine>> /\ status' = "running"]_vars

\* The row the loop has just read (a skipped header line is not a row).
SqReading ==
    /\ tool = "squash_intersect" /\ sq_line_num' = sq_line_num + 1
    /\ ~(sq_line_num' = 1 /\ skip_header)
SqRow == sq_in[sq_line_num']

\* A data row that falls short of the fixed width.
ShortRow(row) ==
    /\ row # << <<>> >> /\ ~startswith_hash(row)
    /\ Len(row) < 19

\* The tuples aggregated under a key so far: none for a key not yet seen.
TuplesUnder(d, key) == IF key \in dict_keys(d) THEN dict_get(d, key) ELSE <<>>

Malformed(line) ==
    /\ ~startswith_hash(line)
    /\ Len(line) < 8 \/ ~IsInt(line[2])

\* C17: under the default options a malformed data line is skipped and does
\* not halt vcf_to_bed: nothing is written for it and the run goes on to the
\* later lines.
C17_MalformedLineSkipped ==
    [][(Reading /\ parse_bnd /\ ~include_ins /\ Malformed(Record))
         => Written = <<>> /\ status' = "running"]_vars

(***************************************************************************)
(* annotate_vcf.py: process_vcf_file.  A line is read with rstrip('\n')    *)
(* only, so its columns are the fields as they stand.                      *)
(***************************************************************************)

\* line.startswith(prefix), for a prefix without a tab.
startswith(line, prefix) ==
    /\ Len(line[1]) >= Len(prefix)
    /\ SubSeq(line[1], 1, Len(prefix)) = prefix

\* --column-name defaults to this.
column_name == <<"R", "M", "_", "T", "E">>

\* The ##INFO definition line of the annotation tag (its Description is
\* left out).
info_definition_line == << <<"#", "#", "I", "N", "F", "O", "=", "<", "I", "D", "=">> \o column_name \o <<",", "N", "u", "m", "b", "e", "r", "=", "1", ",", "T", "y", "p", "e", "=", "S", "t", "r", "i", "n", "g", ">">> >>

\* A data line needs at least this many columns to be annotated.
MinAnnColumns == 8

\* parts[7] with the annotation added.
annotated_info(info_field, annotation) ==
    IF info_field = <<".">> THEN column_name \o <<"=">> \o annotation
    ELSE info_field \o <<";">> \o column_name \o <<"=">> \o annotation

\* The loop body with the definition line written at the column-header
\* line whether or not it was written before.
annotate_line_header_again(line, lookup, headerWritten, lastInfoLine) ==
    LET result(ls, hw, li, tot, ann) ==
            [lines |-> ls, header_written |-> hw, last_info_line |-> li,
             total |-> tot, annotated |-> ann]
    IN  IF startswith(line, <<"#", "#">>)
        THEN IF startswith(line, <<"#", "#", "I", "N", "F", "O">>)
             THEN result(<<line>>, headerWritten, TRUE, 0, 0)
             ELSE IF lastInfoLine /\ ~headerWritten
                  THEN result(<<info_definition_line, line>>, TRUE, FALSE, 0, 0)
                  ELSE result(<<line>>, headerWritten, lastInfoLine, 0, 0)
        ELSE IF startswith(line, <<"#">>)
        THEN result(<<info_definition_line, line>>, TRUE, lastInfoLine, 0, 0)
        ELSE IF line = << <<>> >>
        THEN result(<<>>, headerWritten, lastInfoLine, 0, 0)
        ELSE IF Len(line) < MinAnnColumns
        THEN result(<<line>>, headerWritten, lastInfoLine, 0, 0)
        ELSE IF line[3] \in DOMAIN lookup
        THEN result(<<[line EXCEPT ![8] = annotated_info(@, lookup[line[3]])]>>,
                    headerWritten, lastInfoLine, 1, 1)
        ELSE result(<<line>>, headerWritten, lastInfoLine, 1, 0)

\* One pass of the loop body over `line`: the lines it writes, the two
\* flags after it, and what it adds to the two counters.
annotate_line(line, lookup, headerWritten, lastInfoLine) ==
    LET result(ls, hw, li, tot, ann) ==
            [lines |-> ls, header_written |-> hw, last_info_line |-> li,
             total |-> tot, annotated |-> ann]
    IN  IF startswith(line, <<"#", "#">>)
        THEN IF startswith(line, <<"#", "#", "I", "N", "F", "O">>)
             THEN result(<<line>>, headerWritten, TRUE, 0, 0)
             ELSE IF lastInfoLine /\ ~headerWritten
                  THEN result(<<info_definition_line, line>>, TRUE, FALSE, 0, 0)
                  ELSE result(<<line>>, headerWritten, lastInfoLine, 0, 0)
        ELSE IF startswith(line, <<"#">>)
        THEN IF ~headerWritten
             THEN result(<<info_definition_line, line>>, TRUE, lastInfoLine, 0, 0)
             ELSE result(<<line>>, headerWritten, lastInfoLine, 0, 0)
        ELSE IF line = << <<>> >>
        THEN result(<<>>, headerWritten, lastInfoLine, 0, 0)
        ELSE IF Len(line) < MinAnnColumns
        THEN result(<<line>>, headerWritten, lastInfoLine, 0, 0)
        ELSE IF line[3] \in DOMAIN lookup
        THEN result(<<[line EXCEPT ![8] = annotated_info(@, lookup[line[3]])]>>,
                    headerWritten, lastInfoLine, 1, 1)
        ELSE result(<<line>>, headerWritten, lastInfoLine, 1, 0)

\* for line in f: one iteration.
process_vcf_file_line ==
    /\ tool = "annotate_vcf" /\ status = "running"
    /\ ann_step = "process_vcf_file"
    /\ ann_line_num < Len(ann_in)
    /\ LET r == annotate_line(ann_in[ann_line_num + 1], lookup_dict,
                              header_written, last_info_line)
       IN  /\ ann_line_num' = ann_line_num + 1
           /\ ann_out' = ann_out \o r.lines
           /\ header_written' = r.header_written
           /\ last_info_line' = r.last_info_line
           /\ total_records' = total_records + r.total
           /\ annotated_records' = annotated_records + r.annotated
    /\ UNCHANGED <<tool, status, ann_in, lookup_dict, use_stdout,
                   ann_out_on_disk, overwrite, output_existed, ann_step,
                   vcfVars, bndVars, bedVars, sqVars,
                   orchVars, faVars>>

\* The file is read through: the handle is closed, main() prints the
\* summary and returns.
process_vcf_file_end ==
    /\ tool = "annotate_vcf" /\ status = "running"
    /\ ann_step = "process_vcf_file"
    /\ ann_line_num = Len(ann_in)
    /\ status' = "ok"
    /\ UNCHANGED <<tool, annVars, vcfVars, bndVars, bedVars, sqVars, orchVars, faVars>>

\* The except handler without the os.remove call.
keep_incomplete_output(onDisk, useStdout) == onDisk

\* except Exception: the output file, when there is one, is closed and
\* removed.
remove_incomplete_output(onDisk, useStdout) ==
    IF ~useStdout THEN FALSE ELSE onDisk

\* Reading the input or writing the output raises (a byte that is not
\* UTF-8, a full disk): the handler cleans up and re-raises as ValueError,
\* and main() exits 1.
process_vcf_file_error ==
    /\ tool = "annotate_vcf" /\ status = "running"
    /\ ann_step = "process_vcf_file"
    /\ ann_line_num < Len(ann_in)
    /\ ann_out_on_disk' = remove_incomplete_output(ann_out_on_disk, use_stdout)
    /\ status' = "exit1"
    /\ UNCHANGED <<tool, ann_in, lookup_dict, use_stdout, ann_line_num,
                   last_info_line, header_written, total_records,
                   annotated_records, ann_out, overwrite, output_existed,
                   ann_step, vcfVars, bndVars, bedVars,
                   sqVars, orchVars, faVars>>

(***************************************************************************)
(* Input of annotate_vcf.py: header lines, records and the lookup built    *)
(* from the grouped annotations.                                           *)
(***************************************************************************)
MaxAnnLines == 3      \* lines in the VCF given to annotate_vcf.py

AnnLines ==
    { << <<"#", "#", "f", "i", "l", "e", "f", "o", "r", "m", "a", "t", "=", "V", "C", "F", "v", "4", ".", "2">> >>,
      << <<"#", "#", "I", "N", "F", "O", "=", "<", "I", "D", "=", "S", "V", "T", "Y", "P", "E", ",", "N", "u", "m", "b", "e", "r", "=", "1", ",", "T", "y", "p", "e", "=", "S", "t", "r", "i", "n", "g", ">">> >>,
      << <<"#", "#", "c", "o", "n", "t", "i", "g", "=", "<", "I", "D", "=", "c", "1", ">">> >>,
      <<<<"#", "C", "H", "R", "O", "M">>, <<"P", "O", "S">>, <<"I", "D">>, <<"R", "E", "F">>, <<"A", "L", "T">>, <<"Q", "U", "A", "L">>, <<"F", "I", "L", "T", "E", "R">>, <<"I", "N", "F", "O">>>>,
      <<<<"c", "1">>, <<"1", "0", "0", "0">>, <<"v", "A">>, <<"N">>, <<"<", "D", "E", "L", ">">>, <<".">>, <<"P", "A", "S", "S">>, <<"S", "V", "T", "Y", "P", "E", "=", "D", "E", "L", ";", "E", "N", "D", "=", "2", "0", "0", "0">>, <<"G", "T">>, <<"0", "/", "1">>>>,
      <<<<"c", "1">>, <<"5", "0">>, <<"v", "E">>, <<"N">>, <<"A", "C", "G", "T">>, <<".">>, <<"P", "A", "S", "S">>, <<".">>>>,
      <<<<"c", "1">>, <<"2", "0">>, <<"v", "B">>, <<"N">>, <<"<", "D", "E", "L", ">">>, <<".">>, <<"P", "A", "S", "S">>, <<"S", "V", "T", "Y", "P", "E", "=", "D", "E", "L">>>>,
      <<<<"c", "1">>, <<"5">>, <<"v", "A">>>>,
      << <<>> >> }

\* read_data_files over the lines after the header line of one file: every
\* row of two or more columns maps its first column to the other columns
\* joined by tabs, a later row replacing an earlier one of the same ID.
RECURSIVE read_data_rows(_, _)
read_data_rows(lookup, rows) ==
    IF rows = <<>> THEN lookup
    ELSE LET line == strip(Head(rows))
             parts == split(line)
         IN  IF line = <<>> \/ Len(parts) < 2
             THEN read_data_rows(lookup, Tail(rows))
             ELSE read_data_rows((parts[1] :> join("\t", Tail(parts))) @@ lookup,
                                 Tail(rows))

\* read_data_files: the files in turn, the first line of each skipped as
\* its header.
RECURSIVE read_data_files(_, _)
read_data_files(lookup, files) ==
    IF files = <<>> THEN lookup
    ELSE read_data_files(read_data_rows(lookup, Tail(Head(files))), Tail(files))

\* The data files: the TSV files of the two squash stages.
DataHeader == <<<<"S", "n", "i", "f", "f", "l", "e", "s", "I", "D">>, <<"E", "l", "e", "m", "e", "n", "t", "s">>>>
NoRows == <<DataHeader>>
TwoColumns ==
    <<DataHeader,
      <<<<"v", "A">>, <<"c", "1", ",", "0", ",", "9", ",", "L", "1", ",", "L", "I", "N", "E", ",", "+", ",", "1", ",", "5", ",", "7", "|", "c", "1", ",", "3", ",", "8", ",", "A", "l", "u", ",", "S", "I", "N", "E", ",", "-", ",", "2", ",", "4", ",", "8">>>>,
      <<<<"v", "E">>, <<"c", "2", ",", "6", ",", "7", ",", ",", "L", "T", "R", ",", "+", ",", ",", "9", ",", "3">>>>>>
ThreeColumns == <<DataHeader, <<<<"v", "A">>, <<"L", "1">>, <<"L", "I", "N", "E">>>>>>
DataFiles == {<<NoRows, NoRows>>, <<ThreeColumns, TwoColumns>>, <<TwoColumns, ThreeColumns>>}

Lookups == {read_data_files(<<>>, files) : files \in DataFiles}

\* annotate_vcf.py input.vcf --data a.tsv b.tsv [-o out.vcf | --stdout]
InitAnnotate ==
    /\ tool = "annotate_vcf" /\ status = "running"
    /\ ann_in \in Files(AnnLines, MaxAnnLines)
    /\ lookup_dict \in Lookups
    /\ use_stdout \in BOOLEAN
    /\ ann_line_num = 0 /\ last_info_line = FALSE /\ header_written = FALSE
    /\ total_records = 0 /\ annotated_records = 0 /\ ann_out = <<>>
    /\ ann_out_on_disk = ~use_stdout
    /\ overwrite = FALSE /\ output_existed = FALSE
    /\ ann_step = "process_vcf_file"
    /\ vcfIdle /\ bndIdle /\ bedIdle /\ sqIdle /\ orchIdle /\ faIdle

NextAnnotate ==
    \/ process_vcf_file_line
    \/ process_vcf_file_end
    \/ process_vcf_file_error

SpecAnnotate == InitAnnotate /\ [][NextAnnotate]_vars

(***************************************************************************)
(* annotate_vcf.py from the start of main(): the output path is validated, *)
(* the data files are read, and process_vcf_file opens the output.         *)
(***************************************************************************)
\* What the file at the output path holds before the run, when it exists.
OldOutput == << << <<"#", "#", "o", "l", "d">> >> >>

\* A data file of no lines.
EmptyFile == <<>>

\* The --data arguments of a run.
MainDataFiles == DataFiles \cup {<<NoRows, EmptyFile>>}

\* The records main() is started on.
MainLines ==
    { <<<<"#", "C", "H", "R", "O", "M">>, <<"P", "O", "S">>, <<"I", "D">>, <<"R", "E", "F">>, <<"A", "L", "T">>, <<"Q", "U", "A", "L">>, <<"F", "I", "L", "T", "E", "R">>, <<"I", "N", "F", "O">>>>,
      <<<<"c", "1">>, <<"1", "0", "0", "0">>, <<"v", "A">>, <<"N">>, <<"<", "D", "E", "L", ">">>, <<".">>, <<"P", "A", "S", "S">>, <<"S", "V", "T", "Y", "P", "E", "=", "D", "E", "L", ";", "E", "N", "D", "=", "2", "0", "0", "0">>, <<"G", "T">>, <<"0", "/", "1">>>>,
      <<<<"c", "1">>, <<"2", "0">>, <<"v", "B">>, <<"N">>, <<"<", "D", "E", "L", ">">>, <<".">>, <<"P", "A", "S", "S">>, <<"S", "V", "T", "Y", "P", "E", "=", "D", "E", "L">>>> }

\* validate_output_file without the exists() test.
output_refused_never(exists, overwriteFlag) == FALSE

\* validate_output_file raises FileExistsError.
output_refused(exists, overwriteFlag) == exists /\ ~overwriteFlag

\* read_data_files raises ValueError: the first line of a data file is
\* missing or blank.
empty_data_file(files) ==
    \E i \in 1..Len(files) : files[i] = <<>> \/ strip(files[i][1]) = <<>>

\* main() up to the first line of the input: validate_output_file (unless
\* --stdout), read_data_files, and the open(output_file, 'w') of
\* process_vcf_file, which creates the file or truncates the one there.
annotate_main ==
    /\ tool = "annotate_vcf" /\ status = "running"
    /\ ann_step = "main"
    /\ \E files \in MainDataFiles :
          IF ~use_stdout /\ output_refused(ann_out_on_disk, overwrite)
          THEN /\ status' = "exit1"
               /\ UNCHANGED <<lookup_dict, ann_out, ann_out_on_disk, ann_step>>
          ELSE IF empty_data_file(files)
          THEN /\ status' = "exit1"
               /\ UNCHANGED <<lookup_dict, ann_out, ann_out_on_disk, ann_step>>
          ELSE /\ lookup_dict' = read_data_files(<<>>, files)
               /\ ann_out' = <<>>
               /\ ann_out_on_disk' = IF use_stdout THEN ann_out_on_disk ELSE TRUE
               /\ ann_step' = "process_vcf_file"
               /\ UNCHANGED status
    /\ UNCHANGED <<tool, ann_in, use_stdout, ann_line_num, last_info_line,
                   header_written, total_records, annotated_records,
                   overwrite, output_existed, vcfVars, bndVars, bedVars,
                   sqVars, orchVars, faVars>>

\* annotate_vcf.py input.vcf --data a.tsv b.tsv [-o out.vcf] [--overwrite]
\* [--stdout]; with --stdout there is no output path.
InitAnnotateMain ==
    /\ tool = "annotate_vcf" /\ status = "running"
    /\ ann_step = "main"
    /\ ann_in \in Files(MainLines, MaxAnnLines)
    /\ lookup_dict = <<>>
    /\ use_stdout \in BOOLEAN
    /\ overwrite \in BOOLEAN
    /\ output_existed \in (IF use_stdout THEN {FALSE} ELSE BOOLEAN)
    /\ ann_out = (IF output_existed THEN OldOutput ELSE <<>>)
    /\ ann_out_on_disk = output_existed
    /\ ann_line_num = 0 /\ last_info_line = FALSE /\ header_written = FALSE
    /\ total_records = 0 /\ annotated_records = 0
    /\ vcfIdle /\ bndIdle /\ bedIdle /\ sqIdle /\ orchIdle /\ faIdle

NextAnnotateMain ==
    \/ annotate_main
    \/ process_vcf_file_line
    \/ process_vcf_file_end
    \/ process_vcf_file_error

SpecAnnotateMain == InitAnnotateMain /\ [][NextAnnotateMain]_vars

(***************************************************************************)
(* The three stages that write an output file line by line, each as a run  *)
(* of its own.                                                             *)
(***************************************************************************)
InitStages == Init \/ InitBed \/ InitAnnotate

NextStages == Next \/ NextBed \/ NextAnnotate

SpecStages == InitStages /\ [][NextStages]_vars

\* The run has ended on an error.
Aborted == status \in {"exit1", "exit2"}

\* The output file of the stage that runs is on disk.
OutputOnDisk ==
    \/ tool = "vcf2bed" /\ bed_on_disk
    \/ tool = "bed_processor" /\ bed_out_on_disk
    \/ tool = "annotate_vcf" /\ ann_out_on_disk

\* C18 as stated: after an aborted run of any of the three stages its
\* output file is gone.
C18_AbortDeletesOutput == Aborted => ~OutputOnDisk

\* C18 amended: after an aborted run the output file of annotate_vcf is
\* gone, and the output files of vcf2bed and bed_processor are still there.
C18_OnlyAnnotateDeletes ==
    Aborted => (OutputOnDisk <=> tool \in {"vcf2bed", "bed_processor"})

\* annotate_vcf has aborted after writing two lines to its output file, and
\* the file is gone.
C18_Witness ==
    /\ tool = "annotate_vcf" /\ Aborted
    /\ ~use_stdout /\ Len(ann_out) = 2
    /\ ~ann_out_on_disk

\* A line the Flank Expander passes through: valid coordinates, and either
\* no SVTYPE= token or an SVTYPE other than DEL, DUP and INV.
PassedThrough(line) ==
    /\ IsInterval(line)
    /\ \/ NoTypeToken(line)
       \/ HasType(line) /\ TypeOf(line) \notin {S_DEL, S_DUP, S_INV}

\* C19: process_bed_line applied to the line it wrote for a passed-through
\* line gives that very line again.
C19_Idempotence ==
    [][(BedReading /\ PassedThrough(BedLine))
         => /\ Len(BedWritten) = 1
            /\ process_bed_line(BedWritten[1], flank_size, min_coord, skip_invalid)
                 = [lines |-> <<BedWritten[1]>>, raised |-> FALSE]]_vars

\* A BND line has been passed through, and passing its output line through
\* once more gives the same line.
C19_Witness ==
    /\ tool = "bed_processor" /\ lines_read = 1
    /\ PassedThrough(bed_in[1]) /\ HasType(bed_in[1])
    /\ TypeOf(bed_in[1]) = S_BND
    /\ Len(bed_out) = 1
    /\ process_bed_line(bed_out[1], flank_size, min_coord, skip_invalid).lines
         = <<bed_out[1]>>

(***************************************************************************)
(* TRACE.py: main.  A stage is an external program: what it does to the    *)
(* file system and the code it exits with are its own.                     *)
(***************************************************************************)
RequiredTools == {"RepeatMasker", "bedtools"}

InputFiles == {"input_vcf", "intersect", "lib"}

\* The stages in the order main() starts them, and the file each is to
\* produce.
StageOrder ==
    <<"vcf2fasta", "RepeatMasker", "out2bed", "squash_repeat_masker", "vcf2bed",
      "bed_processor", "bedtools_intersect", "squash_intersect", "annotate_vcf">>
StageOutput ==
    <<"ins_fasta", "rm_out", "ins_bed", "ins_squashed", "sv_bed",
      "processed_bed", "intersected_bed", "intersect_squashed", "annotated_vcf">>

\* files_to_remove, without the log file.
Intermediates ==
    {"ins_fasta", "rm_out", "ins_bed", "ins_squashed", "sv_bed",
     "processed_bed", "intersected_bed", "intersect_squashed"}

\* The codes a stage may exit with.
ExitCodes == {0, 1, 2}

\* check_dependencies: shutil.which finds every required tool, or
\* sys.exit(1).
check_dependencies ==
    /\ tool = "TRACE" /\ status = "running"
    /\ step = "check_dependencies"
    /\ IF RequiredTools \subseteq path_tools
       THEN step' = "validate_inputs" /\ status' = status
       ELSE step' = step /\ status' = "exit1"
    /\ UNCHANGED <<tool, started, returncode, fs, touched, path_tools, arg_path, keep_intermediates,
                   remove_log, cleanup_started, vcfVars, bndVars, bedVars,
                   sqVars, annVars, faVars>>

\* validate_file_exists for the input VCF, the intersect file and the
\* library, one after the other.
validate_inputs ==
    /\ tool = "TRACE" /\ status = "running"
    /\ step = "validate_inputs"
    /\ IF {arg_path[f] : f \in InputFiles} \subseteq fs
       THEN step' = "stages" /\ status' = status
       ELSE step' = step /\ status' = "exit1"
    /\ UNCHANGED <<tool, started, returncode, fs, touched, path_tools, arg_path, keep_intermediates,
                   remove_log, cleanup_started, vcfVars, bndVars, bedVars,
                   sqVars, annVars, faVars>>

\* The test after a stage without the validate_file_exists call.
stage_outcome_unvalidated(rc, exists) ==
    IF rc # 0 THEN "exit1" ELSE "running"

\* After a stage: run_command exits 1 on a non-zero return code, and
\* validate_file_exists exits 1 when the output file is not there.
stage_outcome(rc, exists) ==
    IF rc # 0 THEN "exit1"
    ELSE IF ~exists THEN "exit1"
    ELSE "running"

\* The next stage is the one after the stages started so far.
next_stage == Len(started) + 1

\* A stage run through run_command, then the validation of its output.
run_command_stage ==
    /\ tool = "TRACE" /\ status = "running"
    /\ step = "stages"
    /\ next_stage <= Len(StageOrder)
    /\ StageOrder[next_stage] # "bedtools_intersect"
    /\ started' = Append(started, StageOrder[next_stage])
    /\ \E rc \in ExitCodes, wrote \in BOOLEAN :
          /\ returncode' = rc
          /\ fs' = IF wrote THEN fs \cup {StageOutput[next_stage]} ELSE fs
          /\ touched' = touched \cup {arg_path["log"]}
                           \cup (IF wrote THEN {StageOutput[next_stage]} ELSE {})
          /\ status' = stage_outcome(rc, StageOutput[next_stage] \in fs')
    /\ step' = IF status' = "running" /\ next_stage = Len(StageOrder)
               THEN "cleanup" ELSE step
    /\ UNCHANGED <<tool, path_tools, arg_path, keep_intermediates, remove_log,
                   cleanup_started, vcfVars, bndVars, bedVars, sqVars, annVars, faVars>>

\* bedtools intersect: main() opens the output file itself and hands it to
\* the process as stdout.
bedtools_intersect ==
    /\ tool = "TRACE" /\ status = "running"
    /\ step = "stages"
    /\ next_stage <= Len(StageOrder)
    /\ StageOrder[next_stage] = "bedtools_intersect"
    /\ started' = Append(started, StageOrder[next_stage])
    /\ fs' = fs \cup {StageOutput[next_stage]}
    /\ touched' = touched \cup {arg_path["log"], StageOutput[next_stage]}
    /\ \E rc \in ExitCodes :
          /\ returncode' = rc
          /\ status' = stage_outcome(rc, StageOutput[next_stage] \in fs')
    /\ UNCHANGED <<tool, step, path_tools, arg_path, keep_intermediates, remove_log,
                   cleanup_started, vcfVars, bndVars, bedVars, sqVars, annVars, faVars>>

\* files_to_remove: the intermediate files, and the log file when asked for.
files_to_remove ==
    Intermediates \cup (IF remove_log THEN {arg_path["log"]} ELSE {})

\* The intermediate files are removed unless they are to be kept, the log
\* file with them when asked for; main() returns.
cleanup ==
    /\ tool = "TRACE" /\ status = "running"
    /\ step = "cleanup"
    /\ IF ~keep_intermediates
       THEN /\ cleanup_started' = TRUE
            /\ fs' = fs \ files_to_remove
            /\ touched' = touched \cup (fs \cap files_to_remove)
       ELSE UNCHANGED <<cleanup_started, fs, touched>>
    /\ step' = "end"
    /\ status' = "ok"
    /\ UNCHANGED <<tool, started, returncode, path_tools, arg_path, keep_intermediates,
                   remove_log, vcfVars, bndVars, bedVars, sqVars, annVars, faVars>>

\* What an earlier run may have left in the working directory.
LeftOvers == {{}, {"rm_out"}, Intermediates \cup {"annotated_vcf"}}

\* The arguments name files of their own, none of them a path main()
\* derives.
OwnPaths == [f \in InputFiles \cup {"log"} |-> f]

\* TRACE.py input.vcf --intersect I --lib L [--keep-intermediates]
\* [--remove-log], after setup_logging has opened the log file.
InitTrace ==
    /\ tool = "TRACE" /\ status = "running"
    /\ step = "check_dependencies"
    /\ started = <<>> /\ returncode = 0
    /\ arg_path = OwnPaths
    /\ touched = {arg_path["log"]}
    /\ \E present \in SUBSET InputFiles, old \in LeftOvers :
          fs = present \cup old \cup {"log"}
    /\ path_tools \in SUBSET RequiredTools
    /\ keep_intermediates \in BOOLEAN
    /\ remove_log \in BOOLEAN
    /\ cleanup_started = FALSE
    /\ vcfIdle /\ bndIdle /\ bedIdle /\ sqIdle /\ annIdle /\ faIdle

NextTrace ==
    \/ check_dependencies
    \/ validate_inputs
    \/ run_command_stage
    \/ bedtools_intersect
    \/ cleanup

SpecTrace == InitTrace /\ [][NextTrace]_vars

\* The stages started so far are the first stages of the order.
InOrder == started = SubSeq(StageOrder, 1, Len(started))

\* Something the run depends on has failed: a required tool or an input
\* file is missing, the stage run last exited non-zero, or its output file
\* is not there.
StageFailed ==
    /\ started # <<>> /\ ~cleanup_started
    /\ returncode # 0 \/ StageOutput[Len(started)] \notin fs
Missing == ~(RequiredTools \subseteq path_tools) \/ ~(InputFiles \subseteq fs)

\* C20: the stages start in the fixed order; with a tool or an input file
\* missing no stage is started and the run can only end with exit code 1;
\* after a stage that exits non-zero or leaves no output file the run has
\* ended with exit code 1; and once the run has ended nothing more is done:
\* no later stage, no cleanup.
C20_StagesInOrder ==
    /\ [](/\ InOrder
          /\ Missing => started = <<>> /\ status \in {"running", "exit1"}
          /\ StageFailed => status = "exit1"
          /\ status = "exit1" => ~cleanup_started /\ step # "end")
    /\ [][status = "running"]_vars

\* squash_intersect, the eighth stage, has exited non-zero after seven
\* stages went through: the run has ended with exit code 1, annotate_vcf
\* and the cleanup not started.
C20_Witness ==
    /\ tool = "TRACE" /\ status = "exit1"
    /\ started = SubSeq(StageOrder, 1, 8)
    /\ returncode # 0
    /\ ~cleanup_started
    /\ {StageOutput[i] : i \in 1..7} \subseteq fs

\* The line the loop of process_vcf_file has just read, and the lines it
\* has just written.
AnnReading == tool = "annotate_vcf" /\ ann_line_num' = ann_line_num + 1
AnnRecord == ann_in[ann_line_num']
AnnWritten == SubSeq(ann_out', Len(ann_out) + 1, Len(ann_out'))

\* A VCF data record: not a header line, and the eight fixed columns.
IsDataRecord(line) == ~startswith(line, <<"#">>) /\ Len(line) >= 8

\* The columns of a written line as a reader of the file finds them: a tab
\* inside what was written as one column separates two.
RECURSIVE ColumnsRead(_)
ColumnsRead(line) ==
    IF line = <<>> THEN <<>>
    ELSE SplitOn(Head(line), "\t") \o ColumnsRead(Tail(line))

\* The INFO column with the tag added.
TaggedInfo(info, annotation) ==
    IF info = <<".">> THEN column_name \o <<"=">> \o annotation
    ELSE info \o <<";">> \o column_name \o <<"=">> \o annotation

\* C21: a data record whose ID is in the lookup is written as one line with
\* as many columns as it had, the INFO column holding the tag (alone when
\* INFO was '.', after ';' otherwise) and every other column unchanged.
C21_TagInInfoOnly ==
    [][(AnnReading /\ IsDataRecord(AnnRecord)
        /\ AnnRecord[3] \in DOMAIN lookup_dict)
         => /\ Len(AnnWritten) = 1
            /\ LET out == ColumnsRead(AnnWritten[1])
               IN  /\ Len(out) = Len(AnnRecord)
                   /\ out[8] = TaggedInfo(AnnRecord[8], lookup_dict[AnnRecord[3]])
                   /\ \A i \in 1..Len(AnnRecord) :
                          i # 8 => out[i] = AnnRecord[i]]_vars

\* --na-value, 'Value to use when no annotation found'.
na_value == <<"-">>

\* C22: every data record whose ID has no entry in the annotation lookup is
\* written with the annotation tag holding the configured --na-value, the tag
\* being placed in INFO as for an annotated record.
C22_NaValueForUnmatched ==
    [][(AnnReading /\ IsDataRecord(AnnRecord) /\ AnnRecord[3] \notin DOMAIN lookup_dict)
         => /\ Len(AnnWritten) = 1
            /\ LET out == ColumnsRead(AnnWritten[1])
               IN  /\ Len(out) = Len(AnnRecord)
                   /\ out[8] = TaggedInfo(AnnRecord[8], na_value)]_vars

\* The output path held a file when the run started and --overwrite was not
\* given.
Protected == tool = "annotate_vcf" /\ ~use_stdout /\ output_existed /\ ~overwrite

\* C23: when the output path exists and --overwrite is absent, the file keeps
\* its content for the whole run, the output is never opened, and the first
\* step of main() ends the run with exit code 1.
C23_ExistingOutputKept ==
    /\ [](Protected => /\ ann_out_on_disk /\ ann_out = OldOutput
                       /\ ann_step = "main"
                       /\ status \in {"running", "exit1"})
    /\ [][(Protected /\ status = "running") => status' = "exit1"]_vars

\* A run on an existing output path without --overwrite has ended with exit
\* code 1, the old file in place, for an input that holds a record.
C23_Witness ==
    /\ Protected /\ status = "exit1"
    /\ Len(ann_in) = 2
    /\ ann_out_on_disk /\ ann_out = OldOutput

\* The pipeline has completed successfully.
Completed == tool = "TRACE" /\ status = "ok"

\* C24: once the pipeline has completed successfully the log file is gone
\* when --remove-log was given, whatever the other flags, and is still there
\* when it was not.
C24_LogRemovedOnRequest == Completed => (remove_log <=> "log" \notin fs)

\* A line that is neither blank nor a comment.
IsBedDataLine(line) == (\E i \in 1..Len(line) : line[i] # <<>>) /\ ~startswith_hash(line)

\* An invalid line: fewer than eight columns, or a start or end that is no
\* integer.
InvalidBedLine(line) == Len(line) < 8 \/ ~IsInt(line[2]) \/ ~IsInt(line[3])

\* C25: with --skip-invalid an invalid line gives no output line, is counted
\* in lines_skipped and does not end the run, and without the flag it ends
\* the run with exit code 2; every other line is written as it is without
\* the flag, the run going on.
C25_SkipInvalid ==
    [][(BedReading /\ IsBedDataLine(BedLine))
         => IF InvalidBedLine(BedLine)
            THEN IF skip_invalid
                 THEN /\ BedWritten = <<>>
                      /\ lines_skipped' = lines_skipped + 1
                      /\ status' = "running"
                 ELSE status' = "exit2"
            ELSE /\ status' = "running"
                 /\ lines_skipped' = lines_skipped
                 /\ BedWritten = process_bed_line(BedLine, flank_size,
                                                  min_coord, FALSE).lines]_vars

(***************************************************************************)
(* vcf2fasta.py                                                            *)
(***************************************************************************)
\* s.split(sep)
RECURSIVE split_text(_, _)
split_text(s, sep) ==
    LET at == {i \in 1..Len(s) : s[i] = sep}
    IN  IF at = {} THEN <<s>>
        ELSE <<SubSeq(s, 1, Min(at) - 1)>>
             \o split_text(SubSeq(s, Min(at) + 1, Len(s)), sep)

\* sub in s
contains(s, sub) ==
    \E i \in 1..(Len(s) + 1) :
        /\ i + Len(sub) - 1 <= Len(s)
        /\ SubSeq(s, i, i + Len(sub) - 1) = sub

\* parse_info_field: key=value items by key, a later item replacing an
\* earlier one of the same key; an item without '=' maps to True, written
\* here as the text str() gives it.
RECURSIVE parse_info_items(_, _)
parse_info_items(info_dict, items) ==
    IF items = <<>> THEN info_dict
    ELSE LET item == Head(items)
             eq == {i \in 1..Len(item) : item[i] = "="}
             entry == IF eq # {}
                      THEN SubSeq(item, 1, Min(eq) - 1)
                             :> SubSeq(item, Min(eq) + 1, Len(item))
                      ELSE item :> <<"T", "r", "u", "e">>
         IN  parse_info_items(entry @@ info_dict, Tail(items))

parse_info_field(info_str) == parse_info_items(<<>>, split_text(info_str, ";"))

extract_sv_type(info_dict) ==
    IF <<"S", "V", "T", "Y", "P", "E">> \in DOMAIN info_dict THEN info_dict[<<"S", "V", "T", "Y", "P", "E">>] ELSE None

\* clean_sequence: the characters other than A, T, G, C, N of either case
\* are removed, and the rest is upper-cased.
DnaLetters == {"A", "T", "G", "C", "N", "a", "t", "g", "c", "n"}
upper(c) ==
    CASE c = "a" -> "A" [] c = "t" -> "T" [] c = "g" -> "G"
      [] c = "c" -> "C" [] c = "n" -> "N" [] OTHER -> c
RECURSIVE clean_sequence(_)
clean_sequence(seq) ==
    IF seq = <<>> THEN <<>>
    ELSE IF Head(seq) \in DnaLetters
         THEN <<upper(Head(seq))>> \o clean_sequence(Tail(seq))
         ELSE clean_sequence(Tail(seq))

\* re.sub(r'[\[\]<>].*', '', alt): what stands before the first bracket.
BracketChars == {"[", "]", "<", ">"}
alt_clean(alt) ==
    LET at == {i \in 1..Len(alt) : alt[i] \in BracketChars}
    IN  IF at = {} THEN alt ELSE SubSeq(alt, 1, Min(at) - 1)

\* alt.startswith('<') and alt.endswith('>')
is_symbolic(alt) == alt # <<>> /\ alt[1] = "<" /\ alt[Len(alt)] = ">"

\* format_fasta_sequence wraps at this many characters.
line_length == 80

RECURSIVE format_fasta_sequence(_)
format_fasta_sequence(sequence) ==
    IF Len(sequence) <= line_length THEN <<sequence>>
    ELSE <<SubSeq(sequence, 1, line_length)>>
         \o format_fasta_sequence(SubSeq(sequence, line_length + 1, Len(sequence)))

\* The sequences process_vcf_record takes as too short: one base or none.
TooShort == 1

\* process_vcf_record: (header, sequence) of an INS record with a sequence
\* in ALT, (None, None) for every other record.
process_vcf_record(chrom, pos, var_id, ref, alt, info) ==
    LET info_dict == parse_info_field(info)
        none == [header |-> None, sequence |-> None]
        name == IF var_id # <<".">> THEN var_id ELSE chrom \o <<"_">> \o pos \o <<"_", "I", "N", "S">>
        header_parts ==
            <<name, <<"C", "H", "R", "=">> \o chrom, <<"P", "O", "S", "=">> \o pos>>
            \o (IF <<"S", "V", "L", "E", "N">> \in DOMAIN info_dict
                THEN <<<<"L", "E", "N", "=">> \o info_dict[<<"S", "V", "L", "E", "N">>]>> ELSE <<>>)
        sequence == clean_sequence(alt_clean(alt))
    IN  IF extract_sv_type(info_dict) # <<"I", "N", "S">> THEN none
        ELSE IF is_symbolic(alt) THEN none
        ELSE IF Len(sequence) <= TooShort THEN none
        ELSE [header |-> join(" ", header_parts), sequence |-> sequence]

\* --max-length not given (None); 0 is taken the same way by
\* `if max_length and ...`.
NoLimit == 0

\* for line_num, line in enumerate(vcf_handle, 1): one iteration.
vcf2fasta_process_vcf_file_line ==
    /\ tool = "vcf2fasta" /\ status = "running"
    /\ fa_line_num < Len(fa_in)
    /\ fa_line_num' = fa_line_num + 1
    /\ LET line == strip(fa_in[fa_line_num + 1])
           fields == split(line)
       IN  IF line = <<>> \/ startswith_hash(line) \/ Len(fields) < 8
           THEN UNCHANGED <<fasta, insertions_extracted, symbolic_skipped>>
           ELSE LET r == process_vcf_record(fields[1], fields[2], fields[3],
                                            fields[4], fields[5], fields[8])
                    seq_len == Len(r.sequence)
                IN  /\ symbolic_skipped' =
                          IF contains(fields[8], <<"S", "V", "T", "Y", "P", "E", "=", "I", "N", "S">>) /\ is_symbolic(fields[5])
                          THEN symbolic_skipped + 1 ELSE symbolic_skipped
                    /\ IF /\ r.header # None /\ r.sequence # None
                          /\ ~(seq_len < min_length)
                          /\ ~(max_length # NoLimit /\ seq_len > max_length)
                       THEN /\ fasta' = fasta \o <<<<">">> \o r.header>>
                                              \o format_fasta_sequence(r.sequence)
                            /\ insertions_extracted' = insertions_extracted + 1
                       ELSE UNCHANGED <<fasta, insertions_extracted>>
    /\ UNCHANGED <<tool, status, fa_in, min_length, max_length, vcfVars,
                   bndVars, bedVars, sqVars, annVars, orchVars>>

\* The file is read through: main() prints the summary and returns.
vcf2fasta_process_vcf_file_end ==
    /\ tool = "vcf2fasta" /\ status = "running"
    /\ fa_line_num = Len(fa_in)
    /\ status' = "ok"
    /\ UNCHANGED <<tool, faVars, vcfVars, bndVars, bedVars, sqVars, annVars,
                   orchVars>>

MaxFaLines == 2       \* lines in the VCF given to vcf2fasta.py

FaRecord(pos, id, alt, info) ==
    <<<<"c", "1">>, pos, id, <<"N">>, alt, <<".">>, <<"P", "A", "S", "S">>, info>>

FaLines ==
    { FaRecord(<<"1", "0">>, <<"f", "A">>, <<"N", "A", "C", "G", "T">>, <<"S", "V", "T", "Y", "P", "E", "=", "I", "N", "S", ";", "S", "V", "L", "E", "N", "=", "4">>),
      FaRecord(<<"2", "0">>, <<"f", "B">>, <<"A">>, <<"S", "V", "T", "Y", "P", "E", "=", "I", "N", "S", ";", "S", "V", "L", "E", "N", "=", "1">>),
      FaRecord(<<"3", "0">>, <<"f", "C">>, <<"A", "C">>, <<"S", "V", "T", "Y", "P", "E", "=", "I", "N", "S">>),
      FaRecord(<<"4", "0">>, <<".">>, <<"a", "c", "-", "g", "t">>, <<"P", "R", "E", "C", "I", "S", "E", ";", "S", "V", "T", "Y", "P", "E", "=", "I", "N", "S", ";", "S", "V", "L", "E", "N", "=", "4">>),
      FaRecord(<<"5", "0">>, <<"f", "S">>, <<"<", "I", "N", "S", ">">>, <<"S", "V", "T", "Y", "P", "E", "=", "I", "N", "S", ";", "S", "V", "L", "E", "N", "=", "3", "0", "0">>),
      FaRecord(<<"6", "0">>, <<"f", "D">>, <<"<", "D", "E", "L", ">">>, <<"S", "V", "T", "Y", "P", "E", "=", "D", "E", "L", ";", "E", "N", "D", "=", "9", "0">>),
      FaRecord(<<"7", "0">>, <<"f", "G">>, <<"N", "A", "C", "G">>, <<"S", "V", "T", "Y", "P", "E", "=", "D", "E", "L", ";", "E", "N", "D", "=", "7", "0">>),
      <<<<"#", "C", "H", "R", "O", "M">>, <<"P", "O", "S">>, <<"I", "D">>, <<"R", "E", "F">>, <<"A", "L", "T">>, <<"Q", "U", "A", "L">>, <<"F", "I", "L", "T", "E", "R">>, <<"I", "N", "F", "O">>>>,
      <<<<"c", "1">>, <<"5">>, <<"f", "A">>>> }

\* --min-length and --max-length as main() lets them through: the minimum
\* at least 1, the maximum not given or not below the minimum.
LengthLimits == {<<1, NoLimit>>, <<1, 4>>, <<2, 4>>, <<3, NoLimit>>}

\* vcf2fasta.py input.vcf [-o out.fasta] [--min-length m] [--max-length M]
InitFasta ==
    /\ tool = "vcf2fasta" /\ status = "running"
    /\ fa_in \in Files(FaLines, MaxFaLines)
    /\ \E limits \in LengthLimits :
          min_length = limits[1] /\ max_length = limits[2]
    /\ fa_line_num = 0 /\ fasta = <<>>
    /\ insertions_extracted = 0 /\ symbolic_skipped = 0
    /\ vcfIdle /\ bndIdle /\ bedIdle /\ sqIdle /\ annIdle /\ orchIdle

NextFasta == vcf2fasta_process_vcf_file_line \/ vcf2fasta_process_vcf_file_end

SpecFasta == InitFasta /\ [][NextFasta]_vars

\* The record the loop of vcf2fasta has just read, and the lines it has just
\* written.
FaReading == tool = "vcf2fasta" /\ fa_line_num' = fa_line_num + 1
FaRead == fa_in[fa_line_num']
FaWritten == SubSeq(fasta', Len(fasta) + 1, Len(fasta'))

\* A data record, its SVTYPE by the INFO dictionary, and the length of its
\* cleaned ALT.
IsFaRecord(line) == ~startswith_hash(line) /\ Len(line) >= 8
IsInsertion(line) == InfoHas(line[8], S_SVTYPE) /\ InfoValue(line[8], S_SVTYPE) = <<"I", "N", "S">>
CleanedLength(line) == Len(clean_sequence(alt_clean(line[5])))
WithinLimits(L) == min_length <= L /\ (max_length = NoLimit \/ L <= max_length)

\* One FASTA record: a '>' line and the sequence lines after it.
RECURSIVE Concat(_)
Concat(ls) == IF ls = <<>> THEN <<>> ELSE Head(ls) \o Concat(Tail(ls))
OneFastaRecord(ls, sequence) ==
    /\ Len(ls) >= 2 /\ ls[1] # <<>> /\ ls[1][1] = ">"
    /\ Concat(Tail(ls)) = sequence

\* C26: an INS record with a sequence in ALT whose cleaned length L is at
\* least 1 and within --min-length and --max-length gives exactly one FASTA
\* record; a record that is not INS, or whose ALT is symbolic, gives none.
C26_OneRecordPerInsertion ==
    [][(FaReading /\ IsFaRecord(FaRead))
         => IF ~IsInsertion(FaRead) \/ is_symbolic(FaRead[5])
            THEN FaWritten = <<>>
            ELSE (CleanedLength(FaRead) >= 1 /\ WithinLimits(CleanedLength(FaRead)))
                   => OneFastaRecord(FaWritten,
                                     clean_sequence(alt_clean(FaRead[5])))]_vars

\* Records in which an INFO key ends with SVTYPE, END or SVLEN and stands
\* before the key of that name.
SuffixKeyLines ==
    { VcfRecord(<<"c", "4">>, <<"1", "0", "0">>, <<"v", "T">>, <<"N">>, <<"<", "D", "E", "L", ">">>, <<"S", "V", "T", "Y", "P", "E", "=", "D", "E", "L", ";", "A", "V", "G", "_", "E", "N", "D", "=", "1", "5", "0", ";", "E", "N", "D", "=", "2", "0", "0">>),
      VcfRecord(<<"c", "4">>, <<"1", "1", "0">>, <<"v", "U">>, <<"N">>, <<"<", "D", "E", "L", ">">>, <<"C", "I", "E", "N", "D", "=", "-", "5", ",", "5", ";", "S", "V", "T", "Y", "P", "E", "=", "D", "E", "L", ";", "E", "N", "D", "=", "3", "0", "0">>),
      VcfRecord(<<"c", "4">>, <<"1", "2", "0">>, <<"v", "V">>, <<"N">>, <<"<", "D", "E", "L", ">">>, <<"O", "L", "D", "_", "S", "V", "T", "Y", "P", "E", "=", "I", "N", "S", ";", "S", "V", "T", "Y", "P", "E", "=", "D", "E", "L", ";", "E", "N", "D", "=", "1", "9", "0">>),
      VcfRecord(<<"c", "4">>, <<"1", "3", "0">>, <<"v", "W">>, <<"N">>, <<"<", "D", "E", "L", ">">>, <<"S", "V", "T", "Y", "P", "E", "=", "D", "E", "L", ";", "A", "V", "G", "_", "S", "V", "L", "E", "N", "=", "-", "7", ";", "S", "V", "L", "E", "N", "=", "-", "5", "0">>) }

InitSuffixKeys ==
    /\ tool = "vcf2bed" /\ status = "running"
    /\ vcf \in Files(VcfLines \cup SuffixKeyLines, MaxVcfLines)
    /\ parse_bnd \in BOOLEAN
    /\ include_ins \in BOOLEAN
    /\ line_count = 0 /\ bed = <<>> /\ bed_on_disk = TRUE
    /\ variant_count = 0
    /\ skipped_ins_count = 0 /\ parsed_bnd_count = 0
    /\ unparsed_bnd_count = 0 /\ warnings = 0
    /\ bndIdle /\ bedIdle /\ sqIdle /\ annIdle /\ orchIdle /\ faIdle

SpecSuffixKeys == InitSuffixKeys /\ [][Next]_vars

\* An INFO key ends with the name and is longer than it.
EndsWith(s, suffix) ==
    Len(s) > Len(suffix) /\ SubSeq(s, Len(s) - Len(suffix) + 1, Len(s)) = suffix
HasSuffixKey(info) ==
    \E i \in 1..Len(InfoEntries(info)), name \in {S_SVTYPE, S_END, S_SVLEN} :
        EndsWith(EntryKey(InfoEntries(info)[i]), name)

\* C27: a record with an INFO key that merely ends with SVTYPE, END or SVLEN
\* is converted as its entries of exactly those names say: skipped when it
\* is an INS and insertions are excluded, and otherwise written, the run
\* going on, with the end those entries resolve.
C27_ExactKeysOnly ==
    [][(Reading /\ IsRecord(Record) /\ HasSuffixKey(Record[8]))
         => IF IsType(Record, S_INS) /\ ~include_ins
            THEN Written = <<>> /\ status' = "running"
            ELSE /\ status' = "running"
                 /\ Len(Written) >= 1
                 /\ Written[1][3] = str(ResolvedEnd(Record))]_vars

\* Header lines, the column-header line among them, and what is left of a
\* sequence of lines when only those that satisfy a test are kept.
IsHeaderLine(line) == startswith(line, <<"#">>)
IsColumnHeader(line) == startswith(line, <<"#">>) /\ ~startswith(line, <<"#", "#">>)
RECURSIVE HeaderLines(_)
HeaderLines(ls) ==
    IF ls = <<>> THEN <<>>
    ELSE IF IsHeaderLine(Head(ls)) /\ Head(ls) # info_definition_line
         THEN <<Head(ls)>> \o HeaderLines(Tail(ls))
         ELSE HeaderLines(Tail(ls))
DefinitionAt(ls) == {i \in 1..Len(ls) : ls[i] = info_definition_line}

\* The header lines of the input stand before every other line.
HeaderFirst(ls) ==
    \A i, j \in 1..Len(ls) : (IsHeaderLine(ls[j]) /\ ~IsHeaderLine(ls[i])) => j < i

\* C28: the definition line of the tag is written at most once; a
\* column-header line in the output has it before it, and so has every data
\* record of an input whose header stands first and holds a column-header
\* line; the header lines read so far are in the output in their order.
C28_DefinitionLineOnce ==
    tool = "annotate_vcf"
      => /\ Cardinality(DefinitionAt(ann_out)) <= 1
         /\ \A i \in 1..Len(ann_out) :
                IsColumnHeader(ann_out[i]) => \E j \in DefinitionAt(ann_out) : j < i
         /\ (HeaderFirst(ann_in) /\ \E k \in 1..Len(ann_in) : IsColumnHeader(ann_in[k]))
              => \A i \in 1..Len(ann_out) :
                     ~IsHeaderLine(ann_out[i]) => \E j \in DefinitionAt(ann_out) : j < i
         /\ (status = "ok" /\ \E k \in 1..Len(ann_in) : IsColumnHeader(ann_in[k]))
              => Cardinality(DefinitionAt(ann_out)) = 1
         /\ HeaderLines(ann_out) = HeaderLines(SubSeq(ann_in, 1, ann_line_num))

\* The input was an ##INFO line, another ## line and the column-header line:
\* the definition line stands after the ##INFO line, once.
C28_Witness ==
    /\ tool = "annotate_vcf" /\ status = "ok"
    /\ Len(ann_in) = 3
    /\ startswith(ann_in[1], <<"#", "#", "I", "N", "F", "O">>) /\ startswith(ann_in[2], <<"#", "#", "c", "o", "n", "t", "i", "g">>)
    /\ IsColumnHeader(ann_in[3])
    /\ ann_out = <<ann_in[1], info_definition_line, ann_in[2], ann_in[3]>>

\* The argument paths of a run: files of their own; an intersect file named
\* as the BED file main() derives from the VCF stem (sample.vcf with
\* --intersect sample.bed); --log-file naming the input VCF.
ArgPaths ==
    { OwnPaths,
      [OwnPaths EXCEPT !["intersect"] = "sv_bed"],
      [OwnPaths EXCEPT !["log"] = "input_vcf"] }

\* TRACE.py with any of these argument paths, after setup_logging has opened
\* the log file.
InitTracePaths ==
    /\ tool = "TRACE" /\ status = "running"
    /\ step = "check_dependencies"
    /\ started = <<>> /\ returncode = 0
    /\ arg_path \in ArgPaths
    /\ touched = {arg_path["log"]}
    /\ \E present \in SUBSET InputFiles, old \in LeftOvers :
          fs = {arg_path[f] : f \in present} \cup old \cup {arg_path["log"]}
    /\ path_tools \in SUBSET RequiredTools
    /\ keep_intermediates \in BOOLEAN
    /\ remove_log \in BOOLEAN
    /\ cleanup_started = FALSE
    /\ vcfIdle /\ bndIdle /\ bedIdle /\ sqIdle /\ annIdle /\ faIdle

SpecTracePaths == InitTracePaths /\ [][NextTrace]_vars

\* C29: no path the orchestrator has written or removed is the path of the
\* input VCF, the intersect file or the library.
C29_InputsUntouched ==
    tool = "TRACE" => touched \cap {arg_path[f] : f \in InputFiles} = {}
====
